---- MODULE Spec2Model ----
(***************************************************************************)
(* Image Signal Studio: deterministic metadata and multi-surface export.   *)
(*                                                                         *)
(* Text is modelled as a sequence of characters, each character a string   *)
(* of one symbol (a character outside ASCII is a named token such as       *)
(* "e+acute").  Str turns such a sequence into a TLA+ string.              *)
(***************************************************************************)
EXTENDS Integers, Sequences, FiniteSets, TLC

VARIABLES
  images,            \* ImageContext: images (sequence of UploadedImage)
  selectedImageIds,  \* ImageContext: selectedImageIds
  metadataMap,       \* ImageContext: metadataMap, imageId -> platform -> ImageMetadata
  nextId,            \* number of image ids issued so far (ids are unique)
  revoked,           \* ids whose preview object URL has been revoked
  ingested,          \* history: one record per image ever ingested by addImages
  selectedFormats,   \* Export: selectedFormats
  isExporting,       \* Export: isExporting
  progress,          \* Export: progress
  exportError,       \* Export: exportError (NoError when null)
  run,               \* the in-flight handleExportPack call: its locals and position
  dimIn,             \* transcoder check: the source size
  dimOut,            \* transcoder check: the computed size
  slugIn,            \* slug check: the identity fields
  slugOut,           \* slug check: the slug bases built from them
  currentPlatform,   \* ImageContext: currentPlatform, the tab of the optimization panel
  generatedOn,       \* history: the (image id, tab) pairs the panel generated for
                     \* while the export page showed its missing-metadata error
  orphan,            \* the handleExportPack call of an Export page that was unmounted
                     \* while the call was in flight (IdleRun when there is none)
  timers             \* the callbacks setTimeout holds for the optimization panel

sessionVars == <<images, selectedImageIds, metadataMap, nextId, revoked, ingested>>
exportVars == <<selectedFormats, isExporting, progress, exportError, run>>
dimVars == <<dimIn, dimOut>>
slugVars == <<slugIn, slugOut>>
panelVars == <<currentPlatform, generatedOn>>
asyncVars == <<orphan, timers>>
vars == <<sessionVars, exportVars, dimVars, slugVars, panelVars, asyncVars>>

----------------------------------------------------------------------------
(* Characters *)

LowerLetters == <<"a","b","c","d","e","f","g","h","i","j","k","l","m","n","o","p","q","r","s","t","u","v","w","x","y","z">>
UpperLetters == <<"A","B","C","D","E","F","G","H","I","J","K","L","M","N","O","P","Q","R","S","T","U","V","W","X","Y","Z">>
DigitChars == <<"0","1","2","3","4","5","6","7","8","9">>

Range(s) == {s[i] : i \in 1..Len(s)}

IndexOf(c, s) == CHOOSE i \in 1..Len(s) : s[i] = c

\* Letters with an acute accent, precomposed (one UTF-16 unit each), and the
\* combining mark U+0301 that NFD splits off.
EAcute == "e+acute"
UpperEAcute == "E+acute"
CombiningAcute == "+acute"

\* String.prototype.toLowerCase on one character
LowerChar(c) ==
  IF c \in Range(UpperLetters) THEN LowerLetters[IndexOf(c, UpperLetters)]
  ELSE IF c = UpperEAcute THEN EAcute
  ELSE c

\* String.prototype.charCodeAt(0) of one character
CharCode(c) ==
  IF c \in Range(LowerLetters) THEN 96 + IndexOf(c, LowerLetters)
  ELSE IF c \in Range(UpperLetters) THEN 64 + IndexOf(c, UpperLetters)
  ELSE IF c \in Range(DigitChars) THEN 47 + IndexOf(c, DigitChars)
  ELSE CASE c = " " -> 32
         [] c = "!" -> 33
         [] c = "," -> 44
         [] c = "-" -> 45
         [] c = "." -> 46
         [] c = "_" -> 95
         [] c = "\t" -> 9
         [] c = "\n" -> 10
         [] c = "\r" -> 13
         [] c = UpperEAcute -> 201
         [] c = EAcute -> 233
         [] c = CombiningAcute -> 769

\* the regular expression class \s, as far as the modelled alphabet goes
WhiteSpace == {" ", "\t", "\n", "\r"}

\* the regular expression class [a-z0-9-_]
SafeChars == Range(LowerLetters) \cup Range(DigitChars) \cup {"-", "_"}

\* the characters of s as one string (by halves, to keep the recursion shallow)
RECURSIVE Str(_)
Str(s) ==
  IF s = <<>> THEN ""
  ELSE IF Len(s) = 1 THEN s[1]
  ELSE Str(SubSeq(s, 1, Len(s) \div 2)) \o Str(SubSeq(s, (Len(s) \div 2) + 1, Len(s)))

\* the concatenation of a sequence of sequences
RECURSIVE Flatten(_)
Flatten(ss) ==
  IF ss = <<>> THEN <<>>
  ELSE IF Len(ss) = 1 THEN ss[1]
  ELSE Flatten(SubSeq(ss, 1, Len(ss) \div 2)) \o Flatten(SubSeq(ss, (Len(ss) \div 2) + 1, Len(ss)))

Max(a, b) == IF a >= b THEN a ELSE b

----------------------------------------------------------------------------
(* Text Normalizer: src/lib/slug-utils.ts *)

ToLowerCase(s) == [i \in 1..Len(s) |-> LowerChar(s[i])]

\* String.prototype.normalize('NFD'): canonical decomposition
NormalizeNFD(s) ==
  Flatten([i \in 1..Len(s) |->
             IF s[i] = EAcute THEN <<"e", CombiningAcute>>
             ELSE IF s[i] = UpperEAcute THEN <<"E", CombiningAcute>>
             ELSE <<s[i]>>])

\* replace(/[class]/g, ''): drop every character of the class
RemoveChars(s, class) ==
  Flatten([i \in 1..Len(s) |-> IF s[i] \in class THEN <<>> ELSE <<s[i]>>])

\* replace(/[class]+/g, rep): each maximal run of the class becomes rep
ReplaceRuns(s, class, rep) ==
  Flatten([i \in 1..Len(s) |->
             IF s[i] \notin class THEN <<s[i]>>
             ELSE IF i < Len(s) /\ s[i + 1] \in class THEN <<>>
             ELSE <<rep>>])

\* replace(/^-|-$/g, ''): one leading and one trailing hyphen
TrimHyphens(s) ==
  LET a == IF s # <<>> /\ Head(s) = "-" THEN Tail(s) ELSE s
  IN  IF a # <<>> /\ a[Len(a)] = "-" THEN SubSeq(a, 1, Len(a) - 1) ELSE a

KeepChars(s, class) == RemoveChars(s, Range(s) \ class)

\* slugify whose class of safe characters is [a-z0-9-], without the underscore
slugifyNoUnderscore(text) ==
  TrimHyphens(
    ReplaceRuns(
      KeepChars(
        ReplaceRuns(
          RemoveChars(
            RemoveChars(NormalizeNFD(ToLowerCase(text)), {CombiningAcute}),
            {","}),
          WhiteSpace, "-"),
        SafeChars \ {"_"}),
      {"-"}, "-"))

\* slugify trimming the outer hyphens before it collapses the runs of hyphens
slugifyTrimFirst(text) ==
  ReplaceRuns(
    TrimHyphens(
      KeepChars(
        ReplaceRuns(
          RemoveChars(
            RemoveChars(NormalizeNFD(ToLowerCase(text)), {CombiningAcute}),
            {","}),
          WhiteSpace, "-"),
        SafeChars)),
    {"-"}, "-")

slugify(text) ==
  TrimHyphens(
    ReplaceRuns(
      KeepChars(
        ReplaceRuns(
          RemoveChars(
            RemoveChars(NormalizeNFD(ToLowerCase(text)), {CombiningAcute}),
            {","}),
          WhiteSpace, "-"),
        SafeChars),
      {"-"}, "-"))

----------------------------------------------------------------------------
(* Metadata engine: the second half of src/lib/image-processor.ts *)

SPACE_DESCRIPTORS ==
    << <<"f","l","o","o","r","-","t","o","-","c","e","i","l","i","n","g"," ","w","i","n","d","o","w","s">>,
       <<"i","n","d","u","s","t","r","i","a","l"," ","c","h","i","c"," ","i","n","t","e","r","i","o","r">>,
       <<"m","i","n","i","m","a","l","i","s","t"," ","w","h","i","t","e"," ","w","a","l","l","s">>,
       <<"h","i","g","h"," ","c","e","i","l","i","n","g","s"," ","w","i","t","h"," ","n","a","t","u","r","a","l"," ","l","i","g","h","t">>,
       <<"e","x","p","o","s","e","d"," ","b","r","i","c","k"," ","a","c","c","e","n","t","s">>,
       <<"f","l","e","x","i","b","l","e"," ","o","p","e","n"," ","l","a","y","o","u","t">>,
       <<"g","a","l","l","e","r","y","-","s","t","y","l","e"," ","w","h","i","t","e"," ","w","a","l","l","s">>,
       <<"m","o","d","e","r","n"," ","l","o","u","n","g","e"," ","s","e","a","t","i","n","g">>,
       <<"p","r","o","f","e","s","s","i","o","n","a","l"," ","l","i","g","h","t","i","n","g"," ","s","e","t","u","p">>,
       <<"v","e","r","s","a","t","i","l","e"," ","p","r","o","d","u","c","t","i","o","n"," ","s","p","a","c","e">>,
       <<"d","o","w","n","t","o","w","n"," ","M","a","n","h","a","t","t","a","n"," ","v","i","e","w","s">>,
       <<"c","u","r","a","t","e","d"," ","d","e","s","i","g","n"," ","d","e","t","a","i","l","s">> >>

\* String(n) for a natural number
RECURSIVE DecimalDigits(_)
DecimalDigits(n) ==
  IF n < 10 THEN <<DigitChars[n + 1]>>
  ELSE DecimalDigits(n \div 10) \o <<DigitChars[(n % 10) + 1]>>

\* String.prototype.padStart(width, '0')
RECURSIVE PadStart(_, _)
PadStart(s, width) == IF Len(s) >= width THEN s ELSE PadStart(<<"0">> \o s, width)

\* String.prototype.lastIndexOf('.'), zero-based, -1 when absent
LastIndexOfDot(s) ==
  IF "." \in Range(s)
  THEN (CHOOSE i \in 1..Len(s) : s[i] = "." /\ \A j \in (i + 1)..Len(s) : s[j] # ".") - 1
  ELSE -1

\* s.split(' ').slice(0, 2).join(' '): everything before the second blank
FirstTwoWords(s) ==
  LET blanks == {i \in 1..Len(s) : s[i] = " "}
  IN  IF Cardinality(blanks) < 2 THEN s
      ELSE LET first == CHOOSE i \in blanks : \A j \in blanks : i <= j
               second == CHOOSE i \in blanks \ {first} : \A j \in blanks \ {first} : i <= j
           IN  SubSeq(s, 1, second - 1)

Sep == <<"_", "_">>

\* makeSlugBase with the photo id group left empty
makeSlugBaseNoPhotoId(params) ==
  slugify(params.spaceName) \o <<"-">> \o slugify(params.neighborhood) \o <<"-">>
    \o slugify(params.city)
    \o Sep \o slugify(FirstTwoWords(params.keywordMaster))
    \o Sep \o slugify(FirstTwoWords(params.descriptor))
    \o Sep

\* makeSlugBase normalizing the whole keyword and the whole descriptor, as
\* buildSlugBase of slug-utils.ts does
makeSlugBaseWholeFields(params) ==
  slugify(params.spaceName) \o <<"-">> \o slugify(params.neighborhood) \o <<"-">>
    \o slugify(params.city)
    \o Sep \o slugify(params.keywordMaster)
    \o Sep \o slugify(params.descriptor)
    \o Sep \o slugify(params.photoId)

makeSlugBase(params) ==
  slugify(params.spaceName) \o <<"-">> \o slugify(params.neighborhood) \o <<"-">>
    \o slugify(params.city)
    \o Sep \o slugify(FirstTwoWords(params.keywordMaster))
    \o Sep \o slugify(FirstTwoWords(params.descriptor))
    \o Sep \o slugify(params.photoId)

RECURSIVE SumCodes(_)
SumCodes(s) ==
  IF s = <<>> THEN 0
  ELSE IF Len(s) = 1 THEN CharCode(s[1])
  ELSE SumCodes(SubSeq(s, 1, Len(s) \div 2)) + SumCodes(SubSeq(s, (Len(s) \div 2) + 1, Len(s)))

getDescriptorForImage(imageName) ==
  SPACE_DESCRIPTORS[(SumCodes(imageName) % Len(SPACE_DESCRIPTORS)) + 1]

baseNameOf(imageName) ==
  LET ext == LastIndexOfDot(imageName)
  IN  IF ext > 0 THEN SubSeq(imageName, 1, ext) ELSE imageName

\* generatePhotoId taking the index branch for every name
generatePhotoIdAlwaysIndex(imageName, index) ==
  PadStart(DecimalDigits(index + 1), 3)

generatePhotoId(imageName, index) ==
  IF Len(baseNameOf(imageName)) > 20
  THEN PadStart(DecimalDigits(index + 1), 3)
  ELSE slugify(baseNameOf(imageName))

----------------------------------------------------------------------------
(* Surface profile table and image transcoder: src/lib/image-processor.ts *)

PLATFORM_KEYS == <<"web", "instagram", "pinterest", "google-business", "messaging", "print">>

platformExportConfigs ==
  [pk \in Range(PLATFORM_KEYS) |->
     CASE pk = "web" -> [maxDimension |-> 2000, quality |-> 78]
       [] pk = "instagram" -> [maxDimension |-> 1080, quality |-> 82]
       [] pk = "pinterest" -> [maxDimension |-> 1500, quality |-> 82]
       [] pk = "google-business" -> [maxDimension |-> 1600, quality |-> 80]
       [] pk = "messaging" -> [maxDimension |-> 1600, quality |-> 70]
       [] pk = "print" -> [maxDimension |-> 4000, quality |-> 92]]

\* Math.round(p / q) for p >= 0, q > 0.  The code computes p / q in double
\* precision as original * (maxDimension / longestEdge); that product equals
\* the exact quotient to within 1e-12, so it rounds as the exact quotient does
\* except when the exact quotient is k + 1/2, where the double may fall on
\* either side: halfUp is the side it falls on.
MathRound(p, q, halfUp) ==
  IF (2 * p) % (2 * q) = q
  THEN IF halfUp THEN (p \div q) + 1 ELSE p \div q
  ELSE (2 * p + q) \div (2 * q)

\* Math.floor(p / q)
MathFloor(p, q, halfUp) == p \div q

\* calculateDimensions without the early return for small images
calculateDimensionsAlwaysScale(originalWidth, originalHeight, maxDimension, halfUp) ==
  LET longestEdge == Max(originalWidth, originalHeight)
  IN  [width |-> MathRound(originalWidth * maxDimension, longestEdge, halfUp.w),
       height |-> MathRound(originalHeight * maxDimension, longestEdge, halfUp.h)]

\* calculateDimensions truncating instead of rounding
calculateDimensionsFloor(originalWidth, originalHeight, maxDimension, halfUp) ==
  LET longestEdge == Max(originalWidth, originalHeight)
  IN  IF longestEdge <= maxDimension
      THEN [width |-> originalWidth, height |-> originalHeight]
      ELSE [width |-> MathFloor(originalWidth * maxDimension, longestEdge, halfUp.w),
            height |-> MathFloor(originalHeight * maxDimension, longestEdge, halfUp.h)]

calculateDimensions(originalWidth, originalHeight, maxDimension, halfUp) ==
  LET longestEdge == Max(originalWidth, originalHeight)
  IN  IF longestEdge <= maxDimension
      THEN [width |-> originalWidth, height |-> originalHeight]
      ELSE [width |-> MathRound(originalWidth * maxDimension, longestEdge, halfUp.w),
            height |-> MathRound(originalHeight * maxDimension, longestEdge, halfUp.h)]

HalfUps == [w : BOOLEAN, h : BOOLEAN]

----------------------------------------------------------------------------
(* Session state: src/context/ImageContext.tsx *)

SPACE_CONFIG ==
  [spaceName |-> <<"S","t","u","d","i","o">>, neighborhood |-> <<"S","o","H","o">>, city |-> <<"N","Y","C">>]

\* CATEGORY_KEYWORD_MASTER['main_room_wide'], the category addImages assigns
KeywordMasterMainRoomWide == <<"o","p","e","n"," ","f","l","o","o","r"," ","p","l","a","n"," ","s","t","u","d","i","o">>

InitialCategory == "main_room_wide"

InitialLocation == <<"S","o","H","o",","," ","N","e","w"," ","Y","o","r","k"," ","C","i","t","y">>

\* String.prototype.trim
RECURSIVE TrimStart(_)
TrimStart(s) == IF s # <<>> /\ Head(s) \in WhiteSpace THEN TrimStart(Tail(s)) ELSE s

RECURSIVE TrimEnd(_)
TrimEnd(s) ==
  IF s # <<>> /\ s[Len(s)] \in WhiteSpace THEN TrimEnd(SubSeq(s, 1, Len(s) - 1)) ELSE s

Trim(s) == TrimStart(TrimEnd(s))

\* String.prototype.split(c): the pieces between occurrences of c
RECURSIVE SplitAt(_, _)
SplitAt(s, c) ==
  IF c \notin Range(s) THEN <<s>>
  ELSE LET i == CHOOSE k \in 1..Len(s) : s[k] = c /\ \A j \in 1..(k - 1) : s[j] # c
       IN  <<SubSeq(s, 1, i - 1)>> \o SplitAt(SubSeq(s, i + 1, Len(s)), c)

\* Array.prototype.join(c)
RECURSIVE JoinWith(_, _)
JoinWith(parts, c) ==
  IF parts = <<>> THEN <<>>
  ELSE IF Len(parts) = 1 THEN parts[1]
  ELSE parts[1] \o <<c>> \o JoinWith(Tail(parts), c)

\* parseLocation splitting at the first comma only
parseLocationFirstComma(location) ==
  IF "," \in Range(location)
  THEN LET c == CHOOSE i \in 1..Len(location) :
                  location[i] = "," /\ \A j \in 1..(i - 1) : location[j] # ","
       IN  [neighborhood |-> Trim(SubSeq(location, 1, c - 1)),
            city |-> Trim(SubSeq(location, c + 1, Len(location)))]
  ELSE [neighborhood |-> IF location # <<>> THEN location ELSE SPACE_CONFIG.neighborhood,
        city |-> SPACE_CONFIG.city]

parseLocation(location) ==
  LET split == SplitAt(location, ",")
      parts == [i \in 1..Len(split) |-> Trim(split[i])]
  IN  IF Len(parts) >= 2
      THEN [neighborhood |-> parts[1], city |-> Trim(JoinWith(Tail(parts), " "))]
      ELSE [neighborhood |-> IF location # <<>> THEN location ELSE SPACE_CONFIG.neighborhood,
            city |-> SPACE_CONFIG.city]

\* makeFilenames naming every file after the platform key itself
FilenameSuffixByKey(platform) ==
  CASE platform = "web" -> <<"_","_","w","e","b",".","j","p","g">>
    [] platform = "instagram" -> <<"_","_","i","n","s","t","a","g","r","a","m",".","j","p","g">>
    [] platform = "pinterest" -> <<"_","_","p","i","n","t","e","r","e","s","t",".","j","p","g">>
    [] platform = "google-business" -> <<"_","_","g","o","o","g","l","e","-","b","u","s","i","n","e","s","s",".","j","p","g">>
    [] platform = "messaging" -> <<"_","_","m","e","s","s","a","g","i","n","g",".","j","p","g">>
    [] platform = "print" -> <<"_","_","p","r","i","n","t",".","j","p","g">>
    [] OTHER -> <<"_","_","w","e","b",".","j","p","g">>

\* makeFilenames(slugBase)[platform] || filenames.web
FilenameSuffix(platform) ==
  CASE platform = "web" -> <<"_","_","w","e","b",".","j","p","g">>
    [] platform = "instagram" -> <<"_","_","i","g",".","j","p","g">>
    [] platform = "pinterest" -> <<"_","_","p","i","n",".","j","p","g">>
    [] platform = "google-business" -> <<"_","_","g","b","p",".","j","p","g">>
    [] platform = "messaging" -> <<"_","_","m","s","g",".","j","p","g">>
    [] platform = "print" -> <<"_","_","p","r","i","n","t",".","j","p","g">>
    [] OTHER -> <<"_","_","w","e","b",".","j","p","g">>

makeFilenames(slugBase, platform) == slugBase \o FilenameSuffix(platform)

makeAltWeb(spaceName, neighborhood, city, descriptor) ==
  descriptor \o <<" ","a","t"," ">> \o spaceName \o <<" ","i","n"," ">> \o neighborhood \o <<","," ">> \o city

makeCaptionWeb(spaceName, neighborhood, city, descriptor) ==
  spaceName \o <<" ","i","n"," ">> \o neighborhood \o <<","," ">> \o city \o <<" ","f","e","a","t","u","r","i","n","g"," ">> \o descriptor
    \o <<"."," ","P","e","r","f","e","c","t"," ","f","o","r"," ","p","h","o","t","o"," ","s","h","o","o","t","s",","," ","e","v","e","n","t","s",","," ","a","n","d"," ","c","r","e","a","t","i","v","e"," ","p","r","o","d","u","c","t","i","o","n","s",".">>

makeCaptionGoogleBusiness(neighborhood, city, descriptor) ==
  <<"P","r","o","f","e","s","s","i","o","n","a","l"," ","c","r","e","a","t","i","v","e"," ","s","p","a","c","e"," ","i","n"," ">> \o neighborhood \o <<","," ">> \o city \o <<"."," ">> \o descriptor
    \o <<"."," ","B","o","o","k"," ","n","o","w"," ","v","i","a"," ","o","u","r"," ","w","e","b","s","i","t","e",".">>

makePinterestTitle(keywordMaster, descriptor, neighborhood, city) ==
  keywordMaster \o <<" ","|"," ">> \o descriptor \o <<" ","|"," ">> \o neighborhood \o <<" ">> \o city

makePinterestDescription(keywordMaster, descriptor, neighborhood, city) ==
  <<"D","i","s","c","o","v","e","r"," ","t","h","i","s"," ">> \o keywordMaster \o <<" ","f","e","a","t","u","r","i","n","g"," ">> \o descriptor \o <<" ","i","n"," ">> \o neighborhood
    \o <<","," ">> \o city \o <<"."," ","S","a","v","e"," ","f","o","r"," ","y","o","u","r"," ","n","e","x","t"," ","s","h","o","o","t","!">>

\* generateHashtags('main_room_wide', neighborhood, city)
generateHashtags(neighborhood, city) ==
  << ToLowerCase(RemoveChars(neighborhood, WhiteSpace)),
     ToLowerCase(RemoveChars(city, WhiteSpace)),
     <<"p","h","o","t","o","s","t","u","d","i","o">>, <<"c","r","e","a","t","i","v","e","s","p","a","c","e">>, <<"n","y","c","p","h","o","t","o","g","r","a","p","h","y">>, <<"o","p","e","n","f","l","o","o","r","p","l","a","n">>, <<"s","t","u","d","i","o","s","h","o","o","t">> >>

Sparkles == "+sparkles"
EmDash == "+emdash"
Camera == "+camera"

makeCaptionInstagram(spaceName, descriptor, features, cta, hashtags) ==
  LET featuresList == Flatten([i \in 1..Len(features) |->
                                 IF i = 1 THEN features[i] ELSE <<","," ">> \o features[i]])
      tagged == [i \in 1..Len(hashtags) |->
                   IF hashtags[i] # <<>> /\ Head(hashtags[i]) = "#"
                   THEN hashtags[i] ELSE <<"#">> \o hashtags[i]]
      hashtagString == JoinWith(tagged, " ")
  IN  <<Sparkles, " ">> \o spaceName \o <<" ", EmDash, " ">> \o descriptor
        \o <<"\n", "\n">> \o <<"F","e","a","t","u","r","e","s",":"," ">> \o featuresList
        \o <<"\n", "\n">> \o cta
        \o <<"\n", "\n">> \o hashtagString

BookYourSession == <<"B","o","o","k"," ","y","o","u","r"," ","s","e","s","s","i","o","n"," ","t","o","d","a","y","!"," ">> \o <<Camera>>

ImageKeywordMaster == KeywordMasterMainRoomWide

ImageHashtags ==
  generateHashtags(parseLocation(InitialLocation).neighborhood, parseLocation(InitialLocation).city)

NoMeta == [none |-> TRUE]

\* the ImageMetadata record generateMetadataForImage stores
metadataForImage(image, platform, location) ==
  LET loc == parseLocation(location)
      neighborhood == loc.neighborhood
      city == loc.city
      slugBase == makeSlugBase([spaceName |-> SPACE_CONFIG.spaceName,
                                neighborhood |-> neighborhood,
                                city |-> city,
                                keywordMaster |-> ImageKeywordMaster,
                                descriptor |-> image.descriptor,
                                photoId |-> image.photoId])
      newFilename == makeFilenames(slugBase, platform)
      caption ==
        CASE platform = "web" ->
               makeCaptionWeb(SPACE_CONFIG.spaceName, neighborhood, city, image.descriptor)
          [] platform = "instagram" ->
               makeCaptionInstagram(SPACE_CONFIG.spaceName, image.descriptor,
                                    <<ImageKeywordMaster, <<"n","a","t","u","r","a","l"," ","l","i","g","h","t">>, <<"f","l","e","x","i","b","l","e"," ","l","a","y","o","u","t">>>>,
                                    BookYourSession, ImageHashtags)
          [] platform = "google-business" ->
               makeCaptionGoogleBusiness(neighborhood, city, image.descriptor)
          [] platform = "pinterest" ->
               makePinterestDescription(ImageKeywordMaster, image.descriptor, neighborhood, city)
          [] OTHER ->
               makeCaptionWeb(SPACE_CONFIG.spaceName, neighborhood, city, image.descriptor)
  IN  [filename |-> Str(newFilename),
       altText |-> makeAltWeb(SPACE_CONFIG.spaceName, neighborhood, city, image.descriptor),
       caption |-> caption,
       descriptor |-> Str(image.descriptor),
       keywordMaster |-> Str(ImageKeywordMaster),
       slugBase |-> Str(slugBase),
       neighborhood |-> Str(neighborhood),
       city |-> Str(city),
       newFilename |-> Str(newFilename)]

\* the record updateMetadata starts from when (imageId, platform) has no entry
EmptyMetadata ==
  [filename |-> "", altText |-> <<>>, caption |-> <<>>, descriptor |-> "",
   keywordMaster |-> "", slugBase |-> "", neighborhood |-> "", city |-> "",
   newFilename |-> ""]

\* metadataMap.get(imageId)?.get(platform)
MetaOf(map, imageId, platform) ==
  IF imageId \in DOMAIN map /\ platform \in DOMAIN map[imageId]
  THEN map[imageId][platform]
  ELSE NoMeta

\* imageMap = next.get(imageId) || new Map(); imageMap.set(platform, m); next.set(imageId, imageMap)
SetMeta(map, imageId, platform, m) ==
  LET old == IF imageId \in DOMAIN map THEN map[imageId] ELSE <<>>
      inner == [p \in DOMAIN old \cup {platform} |-> IF p = platform THEN m ELSE old[p]]
  IN  [i \in DOMAIN map \cup {imageId} |-> IF i = imageId THEN inner ELSE map[i]]

ImageIds == {images[i].id : i \in 1..Len(images)}


\* the UploadedImage addImages builds for a file dropped at position index.
\* Its category, keywordMaster and hashtags are the same for every image and
\* no modelled operation changes them: they are ImageKeywordMaster and
\* ImageHashtags rather than fields.
NewImage(file, index, id) ==
  [id |-> id,
   name |-> file.name,
   file |-> file,
   photoId |-> generatePhotoId(file.name, index),
   descriptor |-> getDescriptorForImage(file.name)]

AddImages(files) ==
  /\ LET startIndex == Len(images)
         newImages == [idx \in 1..Len(files) |->
                         NewImage(files[idx], startIndex + (idx - 1), nextId + idx)]
     IN  /\ images' = images \o newImages
         /\ ingested' = ingested \cup
              {[name |-> newImages[i].name, index |-> startIndex + (i - 1),
                photoId |-> newImages[i].photoId, descriptor |-> newImages[i].descriptor]
                 : i \in 1..Len(files)}
  /\ nextId' = nextId + Len(files)
  /\ UNCHANGED <<selectedImageIds, metadataMap, revoked, exportVars, dimVars, slugVars, panelVars, asyncVars>>

RECURSIVE FilterImages(_, _)
FilterImages(imgs, keep) ==
  IF imgs = <<>> THEN <<>>
  ELSE IF Head(imgs).id \in keep THEN <<Head(imgs)>> \o FilterImages(Tail(imgs), keep)
  ELSE FilterImages(Tail(imgs), keep)

RemoveImages(ids) ==
  /\ images' = FilterImages(images, ImageIds \ ids)
  /\ revoked' = revoked \cup (ImageIds \cap ids)
  /\ selectedImageIds' = selectedImageIds \ ids
  /\ metadataMap' = [i \in DOMAIN metadataMap \ ids |-> metadataMap[i]]
  /\ UNCHANGED <<nextId, ingested, exportVars, dimVars, slugVars, panelVars, asyncVars>>

ToggleSelection(id) ==
  /\ selectedImageIds' = IF id \in selectedImageIds
                         THEN selectedImageIds \ {id}
                         ELSE selectedImageIds \cup {id}
  /\ UNCHANGED <<images, metadataMap, nextId, revoked, ingested, exportVars, dimVars, slugVars, panelVars, asyncVars>>

getSelectedImages == FilterImages(images, selectedImageIds)

\* the in-flight export run reads the Map objects it captured; generation
\* mutates the inner Map of an image in place, so a captured outer Map that
\* holds that inner Map sees the new entry
RunAfterSetMeta(imageId, platform, m) ==
  IF run.pc # "idle" /\ imageId \in DOMAIN run.metadataMap /\ imageId \in DOMAIN metadataMap
  THEN [run EXCEPT !.metadataMap = SetMeta(@, imageId, platform, m)]
  ELSE run

GenerateMetadataForImage(imageId, platform, location) ==
  /\ imageId \in ImageIds
  /\ LET image == images[CHOOSE i \in 1..Len(images) : images[i].id = imageId]
         m == metadataForImage(image, platform, location)
     IN  /\ metadataMap' = SetMeta(metadataMap, imageId, platform, m)
         /\ run' = RunAfterSetMeta(imageId, platform, m)
  /\ UNCHANGED <<images, selectedImageIds, nextId, revoked, ingested, selectedFormats,
                 isExporting, progress, exportError, dimVars, slugVars, panelVars, asyncVars>>

\* updateMetadata(imageId, platform, {field: value}) as the optimization panel
\* calls it for the filename, alt text and caption inputs
UpdateMetadata(imageId, platform, field, value) ==
  /\ LET existing == IF MetaOf(metadataMap, imageId, platform) = NoMeta
                     THEN EmptyMetadata
                     ELSE MetaOf(metadataMap, imageId, platform)
         m == [existing EXCEPT ![field] = value]
     IN  /\ metadataMap' = SetMeta(metadataMap, imageId, platform, m)
         /\ run' = RunAfterSetMeta(imageId, platform, m)
  /\ UNCHANGED <<images, selectedImageIds, nextId, revoked, ingested, selectedFormats,
                 isExporting, progress, exportError, dimVars, slugVars, panelVars, asyncVars>>

----------------------------------------------------------------------------
(* Export orchestrator: the Export page with image transcoding *)

\* exportPresets: id and platformKey coincide; the order of presentation
exportPresets == <<"web", "google-business", "instagram", "pinterest", "messaging", "print">>

ToggleFormat(id) ==
  /\ selectedFormats' = IF id \in selectedFormats
                        THEN selectedFormats \ {id}
                        ELSE selectedFormats \cup {id}
  /\ UNCHANGED <<sessionVars, isExporting, progress, exportError, run, dimVars, slugVars, panelVars, asyncVars>>

imagesToExport == IF selectedImageIds # {} THEN getSelectedImages ELSE images

\* Array.from(selectedFormats) mapped to platform keys.  A Set iterates in
\* insertion order; the model iterates in the order of exportPresets, which
\* changes the order of rows and files only.
selectedPlatformKeys == SelectSeq(exportPresets, LAMBDA pk : pk \in selectedFormats)

canExport == Len(imagesToExport) > 0 /\ selectedFormats # {}

\* IsMissing without the test of slugBase and newFilename
IsMissingNoFieldCheck(meta) == meta = NoMeta

\* !meta || !meta.slugBase || !meta.newFilename
IsMissing(meta) == meta = NoMeta \/ meta.slugBase = "" \/ meta.newFilename = ""

checkMissingMetadata(imgs, pks, map) ==
  Flatten([i \in 1..Len(imgs) |->
    Flatten([k \in 1..Len(pks) |->
      IF IsMissing(MetaOf(map, imgs[i].id, pks[k]))
      THEN <<[imageId |-> imgs[i].id, imageName |-> Str(imgs[i].name),
              platformKey |-> pks[k]]>>
      ELSE <<>>])])

\* caption.replace(/\r\n/g, '\\n').replace(/\n/g, '\\n').replace(/\r/g, '\\n')
\* (a line feed right after a carriage return belongs to the pair before it)
sanitizeCaption(caption) ==
  Flatten([i \in 1..Len(caption) |->
             IF caption[i] = "\n" /\ i > 1 /\ caption[i - 1] = "\r" THEN <<>>
             ELSE IF caption[i] \in {"\n", "\r"} THEN <<"\\", "n">>
             ELSE <<caption[i]>>])

\* Papa.unparse of one field with quotes: true, quoteChar and escapeChar '"':
\* the field between double quotes, each double quote inside it doubled
QuoteField(field) ==
  <<"\"">> \o Flatten([i \in 1..Len(field) |->
                         IF field[i] = "\"" THEN <<"\"", "\"">> ELSE <<field[i]>>])
           \o <<"\"">>

\* the caption field of a line of metadata.csv
EscapedCaption(caption) == QuoteField(sanitizeCaption(caption))

NoExportData == [none |-> TRUE]

Pairs(imgs, pks) ==
  Flatten([i \in 1..Len(imgs) |-> [k \in 1..Len(pks) |-> [image |-> imgs[i], platformKey |-> pks[k]]]])

buildExportData(imgs, pks, map) ==
  LET pairs == Pairs(imgs, pks)
      metaAt(n) == MetaOf(map, pairs[n].image.id, pairs[n].platformKey)
  IN  IF \E n \in 1..Len(pairs) : IsMissing(metaAt(n))
      THEN NoExportData
      ELSE [csvRows |-> [n \in 1..Len(pairs) |->
                           [original_filename |-> Str(pairs[n].image.name),
                            platform |-> pairs[n].platformKey,
                            new_filename |-> metaAt(n).newFilename,
                            alt_text |-> metaAt(n).altText,
                            caption |-> sanitizeCaption(metaAt(n).caption),
                            category |-> InitialCategory,
                            location |-> metaAt(n).neighborhood \o ", " \o metaAt(n).city,
                            keyword_master |-> metaAt(n).keywordMaster,
                            descriptor |-> metaAt(n).descriptor,
                            slug_base |-> metaAt(n).slugBase]],
            fileEntries |-> [n \in 1..Len(pairs) |->
                               [platformKey |-> pairs[n].platformKey,
                                filename |-> metaAt(n).newFilename,
                                image |-> pairs[n].image]]]

\* runSelfTest without its comparisons
runSelfTestAlwaysValid(expectedFiles, actualZipFiles, csvRowCount) ==
  [valid |-> TRUE, error |-> [kind |-> "none"]]

\* runSelfTest comparing the rows with the expected count only
runSelfTestRowsOnly(expectedFiles, actualZipFiles, csvRowCount) ==
  IF expectedFiles # csvRowCount
  THEN [valid |-> FALSE,
        error |-> [kind |-> "CSV row count mismatch",
                   expected |-> expectedFiles, got |-> csvRowCount]]
  ELSE [valid |-> TRUE, error |-> [kind |-> "none"]]

runSelfTest(expectedFiles, actualZipFiles, csvRowCount) ==
  IF expectedFiles # actualZipFiles
  THEN [valid |-> FALSE,
        error |-> [kind |-> "ZIP file count mismatch",
                   expected |-> expectedFiles, got |-> actualZipFiles]]
  ELSE IF expectedFiles # csvRowCount
  THEN [valid |-> FALSE,
        error |-> [kind |-> "CSV row count mismatch",
                   expected |-> expectedFiles, got |-> csvRowCount]]
  ELSE [valid |-> TRUE, error |-> [kind |-> "none"]]


NoError == [none |-> TRUE]
NoManifest == [none |-> TRUE]
IdleRun == [pc |-> "idle"]
IdleProgress == [step |-> "", percentage |-> 0, isComplete |-> FALSE]

\* Math.round((currentStep / totalSteps) * 100); for totalSteps < 40 the
\* double product rounds as the exact quotient, halves up
Percentage(currentStep, totalSteps) == MathRound(currentStep * 100, totalSteps, TRUE)

\* MissingDetails without the line that counts the pairs left out
MissingDetailsFirstTen(missing) ==
  [i \in 1..(IF Len(missing) > 10 THEN 10 ELSE Len(missing)) |->
     [imageName |-> missing[i].imageName, platformKey |-> missing[i].platformKey]]

\* missing.slice(0, 10).map(...), then "... and N more" when more than 10
MissingDetails(missing) ==
  LET shown == [i \in 1..(IF Len(missing) > 10 THEN 10 ELSE Len(missing)) |->
                  [imageName |-> missing[i].imageName, platformKey |-> missing[i].platformKey]]
  IN  IF Len(missing) > 10
      THEN shown \o <<[more |-> Len(missing) - 10]>>
      ELSE shown

\* lines 856-903: validation, buildExportData and the first progress step
ExportStart ==
  /\ run.pc = "idle"
  /\ ~isExporting
  /\ canExport
  /\ LET imgs == imagesToExport
         pks == selectedPlatformKeys
         missing == checkMissingMetadata(imgs, pks, metadataMap)
         exportData == buildExportData(imgs, pks, metadataMap)
     IN  IF Len(missing) > 0
         THEN /\ exportError' = [message |-> "Missing metadata. Please run Optimize first.",
                                 details |-> MissingDetails(missing)]
              /\ UNCHANGED <<isExporting, progress, run>>
         ELSE IF exportData = NoExportData
         THEN /\ exportError' = [message |-> "Failed to read metadata. Please run Optimize first.",
                                 details |-> <<>>]
              /\ progress' = [step |-> "Reading persisted metadata...", percentage |-> 0,
                              isComplete |-> FALSE]
              /\ UNCHANGED <<isExporting, run>>
         ELSE /\ exportError' = NoError
              /\ isExporting' = TRUE
              /\ run' = [pc |-> "folders",
                         images |-> imgs,
                         platforms |-> pks,
                         metadataMap |-> metadataMap,
                         csvRows |-> exportData.csvRows,
                         fileEntries |-> exportData.fileEntries,
                         expectedFileCount |-> Len(imgs) * Len(pks),
                         addedFileCount |-> 0,
                         totalSteps |-> 2 + Len(exportData.fileEntries) + 3,
                         currentStep |-> 1,
                         entry |-> 0,
                         size |-> [width |-> 0, height |-> 0],
                         skipped |-> {},
                         zipFolders |-> {},
                         zipFiles |-> {},
                         zipRoot |-> {},
                         manifest |-> NoManifest]
              /\ progress' = [step |-> "Building metadata rows...",
                              percentage |-> Percentage(1, 2 + Len(exportData.fileEntries) + 3),
                              isComplete |-> FALSE]
  /\ UNCHANGED <<sessionVars, selectedFormats, dimVars, slugVars, panelVars, asyncVars>>

\* setManifest(currentManifest), lines 942-952: the run's counts
ExportManifest(r) ==
  [selectedImageCount |-> Len(r.images),
   platformCount |-> Len(r.platforms),
   expectedTotalFiles |-> r.expectedFileCount,
   actualZipFiles |-> r.addedFileCount,
   csvRowsGenerated |-> Len(r.csvRows)]

\* Continue going from the last entry straight to the manifests, without the
\* self-test
ContinueWithoutSelfTest(r) ==
  IF r.entry < Len(r.fileEntries)
  THEN /\ run' = [r EXCEPT !.entry = @ + 1, !.currentStep = @ + 1, !.pc = "loading"]
       /\ progress' = [step |-> "Resizing " \o r.fileEntries[r.entry + 1].filename,
                       percentage |-> Percentage(r.currentStep + 1, r.totalSteps),
                       isComplete |-> FALSE]
  ELSE /\ run' = [r EXCEPT !.currentStep = @ + 1, !.pc = "master",
                             !.manifest = ExportManifest(r)]
       /\ progress' = [step |-> "Generating metadata.csv...",
                       percentage |-> Percentage(r.currentStep + 1, r.totalSteps),
                       isComplete |-> FALSE]

\* the head of the next loop iteration (lines 912-924), or, after the last
\* entry, the manifest and the self-test progress step (lines 942-957)
Continue(r) ==
  IF r.entry < Len(r.fileEntries)
  THEN /\ run' = [r EXCEPT !.entry = @ + 1, !.currentStep = @ + 1, !.pc = "loading"]
       /\ progress' = [step |-> "Resizing " \o r.fileEntries[r.entry + 1].filename,
                       percentage |-> Percentage(r.currentStep + 1, r.totalSteps),
                       isComplete |-> FALSE]
  ELSE /\ run' = [r EXCEPT !.currentStep = @ + 1, !.pc = "selftest",
                             !.manifest = ExportManifest(r)]
       /\ progress' = [step |-> "Running self-test...",
                       percentage |-> Percentage(r.currentStep + 1, r.totalSteps),
                       isComplete |-> FALSE]

\* lines 905-909: one archive folder per selected platform, then the loop
CreateFolders ==
  /\ run.pc = "folders"
  /\ Continue([run EXCEPT !.zipFolders = Range(run.platforms)])
  /\ UNCHANGED <<sessionVars, selectedFormats, isExporting, exportError, dimVars, slugVars, panelVars, asyncVars>>


\* the entry the loop is working on
CurrentEntry == run.fileEntries[run.entry]

\* loadImage rejects (img.onerror): the decode fails or the object URL was
\* revoked; the loop's catch logs it and goes on (lines 937-939)
LoadFails ==
  /\ run.pc = "loading"
  /\ Continue([run EXCEPT !.skipped = @ \cup {run.entry}])
  /\ UNCHANGED <<sessionVars, selectedFormats, isExporting, exportError, dimVars, slugVars, panelVars, asyncVars>>

\* loadImage resolves, the canvas gets the computed size, getContext('2d')
\* returns null: processImageForPlatform throws (image-processor.ts 93-96)
RenderFails ==
  /\ run.pc = "loading"
  /\ CurrentEntry.image.id \notin revoked
  /\ Continue([run EXCEPT !.skipped = @ \cup {run.entry}])
  /\ UNCHANGED <<sessionVars, selectedFormats, isExporting, exportError, dimVars, slugVars, panelVars, asyncVars>>

\* loadImage resolves and the image is drawn at the computed size; toBlob is
\* pending (image-processor.ts 76-117)
LoadResolves(halfUp) ==
  /\ run.pc = "loading"
  /\ CurrentEntry.image.id \notin revoked
  /\ run' = [run EXCEPT
               !.pc = "encoding",
               !.size = calculateDimensions(
                          CurrentEntry.image.file.naturalWidth,
                          CurrentEntry.image.file.naturalHeight,
                          platformExportConfigs[CurrentEntry.platformKey].maxDimension,
                          halfUp)]
  /\ UNCHANGED <<sessionVars, selectedFormats, isExporting, progress, exportError,
                 dimVars, slugVars, panelVars, asyncVars>>

\* EncodeFails with the error escaping the loop's try/catch
EncodeFailsAborts ==
  /\ run.pc = "encoding"
  /\ exportError' = [message |-> "Export failed unexpectedly.", details |-> <<>>]
  /\ isExporting' = FALSE
  /\ progress' = IdleProgress
  /\ run' = IdleRun
  /\ UNCHANGED <<sessionVars, selectedFormats, dimVars, slugVars, panelVars, asyncVars>>

\* toBlob hands back null: 'Failed to create blob'
EncodeFails ==
  /\ run.pc = "encoding"
  /\ Continue([run EXCEPT !.skipped = @ \cup {run.entry}])
  /\ UNCHANGED <<sessionVars, selectedFormats, isExporting, exportError, dimVars, slugVars, panelVars, asyncVars>>

\* JSZip file(name, data) on a folder: a second file of the same name replaces
\* the first
ZipFile(files, folder, name) == files \cup {<<folder, name>>}

\* toBlob hands back the JPEG (a canvas without area has none); the file goes
\* into its platform folder (lines 926-936)
EncodeResolves ==
  /\ run.pc = "encoding"
  /\ run.size.width > 0 /\ run.size.height > 0
  /\ Continue([run EXCEPT
                 !.zipFiles = ZipFile(@, CurrentEntry.platformKey, CurrentEntry.filename),
                 !.addedFileCount = @ + 1])
  /\ UNCHANGED <<sessionVars, selectedFormats, isExporting, exportError, dimVars, slugVars, panelVars, asyncVars>>

\* SelfTest with the failing branch leaving isExporting as it is
SelfTestKeepsExporting ==
  /\ run.pc = "selftest"
  /\ LET selfTest == runSelfTest(run.expectedFileCount, run.addedFileCount, Len(run.csvRows))
     IN  IF ~selfTest.valid
         THEN /\ exportError' = [message |-> "Self-test failed: ZIP/CSV mismatch",
                                 details |-> <<selfTest.error>>]
              /\ progress' = IdleProgress
              /\ run' = IdleRun
              /\ UNCHANGED isExporting
         ELSE /\ run' = [run EXCEPT !.currentStep = @ + 1,
                                    !.zipRoot = @ \cup {"metadata.csv"},
                                    !.pc = "master"]
              /\ progress' = [step |-> "Generating metadata.csv...",
                              percentage |-> Percentage(run.currentStep + 1, run.totalSteps),
                              isComplete |-> FALSE]
              /\ UNCHANGED <<exportError, isExporting>>
  /\ UNCHANGED <<sessionVars, selectedFormats, dimVars, slugVars, panelVars, asyncVars>>

\* lines 959-975: the self-test, then metadata.csv
SelfTest ==
  /\ run.pc = "selftest"
  /\ LET selfTest == runSelfTest(run.expectedFileCount, run.addedFileCount, Len(run.csvRows))
     IN  IF ~selfTest.valid
         THEN /\ exportError' = [message |-> "Self-test failed: ZIP/CSV mismatch",
                                 details |-> <<selfTest.error>>]
              /\ isExporting' = FALSE
              /\ progress' = IdleProgress
              /\ run' = IdleRun
         ELSE /\ run' = [run EXCEPT !.currentStep = @ + 1,
                                    !.zipRoot = @ \cup {"metadata.csv"},
                                    !.pc = "master"]
              /\ progress' = [step |-> "Generating metadata.csv...",
                              percentage |-> Percentage(run.currentStep + 1, run.totalSteps),
                              isComplete |-> FALSE]
              /\ UNCHANGED <<exportError, isExporting>>
  /\ UNCHANGED <<sessionVars, selectedFormats, dimVars, slugVars, panelVars, asyncVars>>

\* the images generateMasterCSV writes a row for: those with web metadata
generateMasterCSV(imgs, map) ==
  SelectSeq(imgs, LAMBDA image : ~IsMissing(MetaOf(map, image.id, "web")))

\* lines 977-984: metadata_master.csv, added when the text is not empty
\* (Papa.unparse of no rows is the empty string)
MasterManifest ==
  /\ run.pc = "master"
  /\ run' = [run EXCEPT
               !.currentStep = @ + 1,
               !.zipRoot = IF generateMasterCSV(run.images, run.metadataMap) # <<>>
                           THEN @ \cup {"metadata_master.csv"} ELSE @,
               !.pc = "compress"]
  /\ progress' = [step |-> "Generating metadata_master.csv...",
                  percentage |-> Percentage(run.currentStep + 1, run.totalSteps),
                  isComplete |-> FALSE]
  /\ UNCHANGED <<sessionVars, selectedFormats, isExporting, exportError, dimVars, slugVars, panelVars, asyncVars>>

\* lines 986-989: zip.generateAsync is started
Compress ==
  /\ run.pc = "compress"
  /\ run' = [run EXCEPT !.pc = "compressing"]
  /\ progress' = [step |-> "Compressing files...", percentage |-> 95, isComplete |-> FALSE]
  /\ UNCHANGED <<sessionVars, selectedFormats, isExporting, exportError, dimVars, slugVars, panelVars, asyncVars>>

\* lines 991-1008: the archive is handed to the browser
Download ==
  /\ run.pc = "compressing"
  /\ run' = [run EXCEPT !.pc = "finalized"]
  /\ progress' = [step |-> "Download ready!", percentage |-> 100, isComplete |-> TRUE]
  /\ UNCHANGED <<sessionVars, selectedFormats, isExporting, exportError, dimVars, slugVars, panelVars, asyncVars>>

\* lines 1010-1018: generateAsync rejects
CompressFails ==
  /\ run.pc = "compressing"
  /\ exportError' = [message |-> "Export failed unexpectedly.", details |-> <<>>]
  /\ isExporting' = FALSE
  /\ progress' = IdleProgress
  /\ run' = IdleRun
  /\ UNCHANGED <<sessionVars, selectedFormats, dimVars, slugVars, panelVars, asyncVars>>

\* lines 1005-1008: two seconds after the download
FinishTimer ==
  /\ run.pc = "finalized"
  /\ isExporting' = FALSE
  /\ progress' = IdleProgress
  /\ run' = IdleRun
  /\ UNCHANGED <<sessionVars, selectedFormats, exportError, dimVars, slugVars, panelVars, asyncVars>>

----------------------------------------------------------------------------
(* Specifications *)

NoSize == [none |-> TRUE]
NoSlugs == [none |-> TRUE]

\* no call of an earlier page is in flight and no timer is set
InitAsync ==
  /\ orphan = IdleRun
  /\ timers = {}

\* useState("web"): no tab of the panel has been clicked
InitPanel ==
  /\ currentPlatform = "web"
  /\ generatedOn = {}

InitSession ==
  /\ images = <<>>
  /\ selectedImageIds = {}
  /\ metadataMap = <<>>
  /\ nextId = 0
  /\ revoked = {}
  /\ ingested = {}
  /\ InitPanel
  /\ InitAsync

InitExport ==
  /\ selectedFormats = {"web"}
  /\ isExporting = FALSE
  /\ progress = IdleProgress
  /\ exportError = NoError
  /\ run = IdleRun

Init ==
  /\ InitSession
  /\ InitExport
  /\ dimIn = NoSize /\ dimOut = NoSize
  /\ slugIn = NoSlugs /\ slugOut = NoSlugs

\* the files the user drops
FileShort ==
  [name |-> <<"I","M","G","_","4","5","2","1",".","j","p","g">>,
   naturalWidth |-> 4000, naturalHeight |-> 3000]

Files == {FileShort}

\* images uploaded in one session of Spec, at most
MaxUploads == 1

\* the platform ids generation is asked for
GenPlatforms == {"web", "instagram"}

\* the presets the user toggles
Formats == {"web", "instagram"}

ExportRun ==
  \/ ExportStart
  \/ CreateFolders
  \/ LoadFails
  \/ RenderFails
  \/ \E halfUp \in HalfUps : LoadResolves(halfUp)
  \/ EncodeFails
  \/ EncodeResolves
  \/ SelfTest
  \/ MasterManifest
  \/ Compress
  \/ Download
  \/ CompressFails
  \/ FinishTimer

\* The user acts between export runs.  A run reads the images, the platform
\* keys and the metadata it captured when it started, so the user's actions
\* commute with its steps; they are taken while no run is in flight.
BetweenRuns == run.pc = "idle"

Next ==
  \/ \E file \in Files : BetweenRuns /\ nextId < MaxUploads /\ AddImages(<<file>>)
  \/ \E id \in ImageIds : BetweenRuns /\ ToggleSelection(id)
  \/ \E id \in ImageIds, pk \in GenPlatforms :
       BetweenRuns /\ GenerateMetadataForImage(id, pk, InitialLocation)
  \/ \E id \in ImageIds : BetweenRuns /\ UpdateMetadata(id, "web", "caption", <<"H","i">>)
  \/ \E id \in Formats : BetweenRuns /\ ToggleFormat(id)
  \/ ExportRun

Spec == Init /\ [][Next]_vars

\* C2: a step taken while some (image, surface) pair of the selection has no
\* metadata entry, or an entry with an empty slug or an empty filename, never
\* starts the run: the archive, the manifests and the download exist in a
\* started run only.
C2_IncompleteMetadataNeverExports ==
  [][(/\ run.pc = "idle"
      /\ \E i \in 1..Len(imagesToExport), pk \in selectedFormats :
           LET meta == MetaOf(metadataMap, imagesToExport[i].id, pk)
           IN  meta = NoMeta \/ meta.slugBase = "" \/ meta.newFilename = "")
     => run'.pc = "idle"]_vars

\* an export was refused while an image carried an entry with an empty slug
C2_Witness ==
  /\ run.pc = "idle"
  /\ exportError # NoError
  /\ exportError.message = "Missing metadata. Please run Optimize first."
  /\ \E i \in 1..Len(imagesToExport), pk \in selectedFormats :
       /\ MetaOf(metadataMap, imagesToExport[i].id, pk) # NoMeta
       /\ MetaOf(metadataMap, imagesToExport[i].id, pk).slugBase = ""

\* C4: when the self-test meets an expected file count that differs from the
\* archived file count or from the row count, no manifest has been added,
\* the run ends there without compression or download, and the error names
\* the count that mismatched with the expected and the actual value.
C4_SelfTestMismatchAborts ==
  [][(/\ run.pc = "selftest"
      /\ \/ run.expectedFileCount # run.addedFileCount
         \/ run.expectedFileCount # Len(run.csvRows))
     => /\ run.zipRoot = {}
        /\ run'.pc = "idle"
        /\ ~isExporting'
        /\ exportError' # NoError
        /\ exportError'.message = "Self-test failed: ZIP/CSV mismatch"
        /\ exportError'.details[1].expected = run.expectedFileCount
        /\ exportError'.details[1].got # run.expectedFileCount
        /\ \/ /\ exportError'.details[1].kind = "ZIP file count mismatch"
              /\ exportError'.details[1].got = run.addedFileCount
           \/ /\ exportError'.details[1].kind = "CSV row count mismatch"
              /\ exportError'.details[1].got = Len(run.csvRows)]_vars

\* a run was aborted by the self-test
C4_Witness ==
  /\ run.pc = "idle"
  /\ ~isExporting
  /\ exportError # NoError
  /\ exportError.message = "Self-test failed: ZIP/CSV mismatch"

\* C5 as stated: a load, render or encode failure of one pair leaves the loop
\* running, and a run in which a pair failed is never aborted.
C5_FailureNeverAbortsRun ==
  [][/\ run.pc \in {"loading", "encoding"} => run'.pc \in {"loading", "encoding", "selftest"}
     /\ (run.pc \notin {"idle", "finalized"} /\ run.skipped # {}) => run'.pc # "idle"]_vars

\* C5 amended: a load, render or encode failure of one pair leaves the loop
\* running and raises no error; the failing pair adds no file, and when the
\* loop ends every pair has either been archived or been skipped; the
\* self-test then aborts the run in which a pair was skipped.
C5_FailureSkipsPairThenSelfTestAborts ==
  [][/\ run.pc \in {"loading", "encoding"} =>
          /\ run'.pc \in {"loading", "encoding", "selftest"}
          /\ exportError' = exportError
          /\ run'.skipped # run.skipped =>
               /\ run'.skipped = run.skipped \cup {run.entry}
               /\ run'.zipFiles = run.zipFiles
               /\ run'.addedFileCount = run.addedFileCount
          /\ run'.pc = "selftest" =>
               run'.addedFileCount + Cardinality(run'.skipped) = Len(run.fileEntries)
     /\ (run.pc = "selftest" /\ run.skipped # {}) =>
          /\ run'.pc = "idle"
          /\ exportError' # NoError
          /\ exportError'.message = "Self-test failed: ZIP/CSV mismatch"]_vars

\* the first pair of a run failed, a later pair was archived, and the loop
\* has ended
C5_Witness ==
  /\ run.pc = "selftest"
  /\ 1 \in run.skipped
  /\ run.addedFileCount >= 1

----------------------------------------------------------------------------
(* Two images of the same name: SpecTwin *)

\* the images of a session into which files were dropped together
Dropped(files) == [idx \in 1..Len(files) |-> NewImage(files[idx], idx - 1, idx)]

\* what addImages recorded for them
IngestedOf(imgs) ==
  {[name |-> imgs[i].name, index |-> i - 1,
    photoId |-> imgs[i].photoId, descriptor |-> imgs[i].descriptor] : i \in 1..Len(imgs)}

\* the session after the user has dropped IMG_4521.jpg twice (say, from the
\* folders of two cameras), on the Export page
InitTwin ==
  /\ images = Dropped(<<FileShort, FileShort>>)
  /\ selectedImageIds = {}
  /\ metadataMap = <<>>
  /\ nextId = Len(images)
  /\ revoked = {}
  /\ ingested = IngestedOf(images)
  /\ InitPanel
  /\ InitAsync
  /\ InitExport
  /\ dimIn = NoSize /\ dimOut = NoSize
  /\ slugIn = NoSlugs /\ slugOut = NoSlugs

NextTwin ==
  \/ \E id \in ImageIds : BetweenRuns /\ ToggleSelection(id)
  \/ \E id \in ImageIds, pk \in GenPlatforms :
       BetweenRuns /\ GenerateMetadataForImage(id, pk, InitialLocation)
  \/ \E id \in Formats : BetweenRuns /\ ToggleFormat(id)
  \/ ExportRun

SpecTwin == InitTwin /\ [][NextTwin]_vars

\* C1: whenever a run is Finalized, the number of artifact files the archive's
\* surface folders contain equals the number of long-form rows and equals
\* |selected images| x |selected surfaces|.
C1_FinalizedArchiveMatchesRows ==
  run.pc = "finalized" =>
    /\ Cardinality(run.zipFiles) = Len(run.csvRows)
    /\ Cardinality(run.zipFiles) = Len(run.images) * Len(run.platforms)

\* C6: with complete metadata the export builds one long-form row per
\* (image, surface) pair, so that the row count equals |I| x |S| and equals
\* the number of files in the archive that passed the self-test.
C6_OneRowPerPairMatchesArchive ==
  run.pc \in {"master", "compress", "compressing", "finalized"} =>
    /\ \A n \in 1..Len(run.csvRows) :
         /\ run.csvRows[n].original_filename = Str(Pairs(run.images, run.platforms)[n].image.name)
         /\ run.csvRows[n].platform = Pairs(run.images, run.platforms)[n].platformKey
    /\ Len(run.csvRows) = Len(run.images) * Len(run.platforms)
    /\ Len(run.csvRows) = Cardinality(run.zipFiles)

----------------------------------------------------------------------------
(* The transcoder's size computation on its own: SpecDim *)

\* sides 1..MaxSmallSide, and sides around and beyond every profile's limit
MaxSmallSide == 4

Sides ==
  (1..MaxSmallSide) \cup
    {103, 800, 1080, 1081, 1500, 1501, 1600, 1601, 2000, 2001, 3000, 3296, 4000, 4001, 6000}

InitDim ==
  /\ InitSession
  /\ InitExport
  /\ dimIn \in [width : Sides, height : Sides]
  /\ dimOut = NoSize
  /\ slugIn = NoSlugs /\ slugOut = NoSlugs

\* processImageForPlatform, lines 81-90: the canvas size for a loaded image
CanvasSize(platformKey, halfUp) ==
  /\ dimOut' = [platformKey |-> platformKey,
                maxDimension |-> platformExportConfigs[platformKey].maxDimension,
                size |-> calculateDimensions(dimIn.width, dimIn.height,
                           platformExportConfigs[platformKey].maxDimension, halfUp)]
  /\ UNCHANGED <<sessionVars, exportVars, dimIn, slugVars, panelVars, asyncVars>>

NextDim == \E platformKey \in Range(PLATFORM_KEYS), halfUp \in HalfUps : CanvasSize(platformKey, halfUp)

SpecDim == InitDim /\ [][NextDim]_vars

\* C7: for every source size and every surface profile the longest edge of
\* the transcoded size exceeds neither the longest edge of the source (never
\* upscaled) nor the profile's maxDimension.
C7_NeverUpscaledNeverAboveLimit ==
  dimOut # NoSize =>
    /\ Max(dimOut.size.width, dimOut.size.height) <= Max(dimIn.width, dimIn.height)
    /\ Max(dimOut.size.width, dimOut.size.height) <= dimOut.maxDimension

\* a 6000x4001 source has been sized for print: its longest edge is 4000
C7_Witness ==
  /\ dimOut # NoSize
  /\ dimIn = [width |-> 6000, height |-> 4001]
  /\ dimOut.platformKey = "print"
  /\ dimOut.size.width = 4000

\* C8: when the longest edge L exceeds maxDimension M, each transcoded
\* dimension is a nearest integer to original * M / L (at most half a pixel
\* away, so less than one pixel) and the longest edge is exactly M; when
\* L <= M the size is returned unchanged.
C8_NearestIntegerScaling ==
  dimOut # NoSize =>
    LET L == Max(dimIn.width, dimIn.height)
        M == dimOut.maxDimension
        Near(out, orig) == /\ 2 * (out * L - orig * M) <= L
                           /\ 2 * (orig * M - out * L) <= L
    IN  IF L > M
        THEN /\ Near(dimOut.size.width, dimIn.width)
             /\ Near(dimOut.size.height, dimIn.height)
             /\ Max(dimOut.size.width, dimOut.size.height) = M
        ELSE dimOut.size = [width |-> dimIn.width, height |-> dimIn.height]

\* 4000x3000 at the web profile (maxDimension 2000) gives 2000x1500
C8_Witness ==
  /\ dimIn = [width |-> 4000, height |-> 3000]
  /\ dimOut # NoSize
  /\ dimOut.platformKey = "web"
  /\ dimOut.size = [width |-> 2000, height |-> 1500]

----------------------------------------------------------------------------
(* The slug synthesizer on its own: SpecSlug *)

\* photo ids are texts of at most MaxTextLen characters over PhotoIdChars
MaxTextLen == 2

PhotoIdChars == {"a", "A", "-", "_"}

Texts == UNION {[1..n -> PhotoIdChars] : n \in 0..MaxTextLen}

\* the identity fields of two images that agree on everything but the photo id
IdentityFields(descriptor, photoId) ==
  [spaceName |-> SPACE_CONFIG.spaceName,
   neighborhood |-> parseLocation(InitialLocation).neighborhood,
   city |-> parseLocation(InitialLocation).city,
   keywordMaster |-> ImageKeywordMaster,
   descriptor |-> descriptor,
   photoId |-> photoId]

InitSlug ==
  /\ InitSession
  /\ InitExport
  /\ dimIn = NoSize /\ dimOut = NoSize
  /\ slugIn \in [descriptor : {SPACE_DESCRIPTORS[1], SPACE_DESCRIPTORS[11]},
                 photoIdA : Texts, photoIdB : Texts]
  /\ slugOut = NoSlugs

\* makeSlugBase applied to both tuples
BuildSlugBases ==
  /\ slugOut' = [a |-> makeSlugBase(IdentityFields(slugIn.descriptor, slugIn.photoIdA)),
                 b |-> makeSlugBase(IdentityFields(slugIn.descriptor, slugIn.photoIdB))]
  /\ UNCHANGED <<sessionVars, exportVars, dimVars, slugIn, panelVars, asyncVars>>

NextSlug == BuildSlugBases

SpecSlug == InitSlug /\ [][NextSlug]_vars

\* C10 as stated: two tuples that differ only in the photo id always give
\* different slug bases.
C10_DifferentIdsDifferentSlugs ==
  (slugOut # NoSlugs /\ slugIn.photoIdA # slugIn.photoIdB) => slugOut.a # slugOut.b

\* C10 amended: two tuples that differ only in the photo id give different
\* slug bases whenever the photo ids still differ after normalization.
C10_DistinctNormalizedIdsDistinctSlugs ==
  (slugOut # NoSlugs /\ slugify(slugIn.photoIdA) # slugify(slugIn.photoIdB))
    => slugOut.a # slugOut.b

\* slug bases built for the photo ids "a" and "A_", which normalize differently
C10_Witness ==
  /\ slugOut # NoSlugs
  /\ slugIn.photoIdA = <<"a">>
  /\ slugIn.photoIdB = <<"A", "_">>
  /\ slugOut.a # slugOut.b

----------------------------------------------------------------------------
(* Ingestion on its own: SpecIngest *)

\* a file whose base name is longer than 20 characters
FileLong ==
  [name |-> <<"s","t","u","d","i","o","-","m","a","i","n","-","r","o","o","m","-","w","i","d","e","-","0","1",".","j","p","g">>,
   naturalWidth |-> 1200, naturalHeight |-> 800]

IngestFiles == {FileShort, FileLong}

\* the user drops one file or two files at once
IngestBatches == {<<f>> : f \in IngestFiles} \cup {<<f, g>> : f \in IngestFiles, g \in IngestFiles}

\* images uploaded in one session of SpecIngest, at most
MaxIngested == 4

NextIngest ==
  \/ \E files \in IngestBatches : nextId + Len(files) <= MaxIngested /\ AddImages(files)
  \/ \E ids \in (SUBSET ImageIds) \ {{}} : RemoveImages(ids)
  \/ \E id \in ImageIds : ToggleSelection(id)

SpecIngest == Init /\ [][NextIngest]_vars

\* C9 as stated: the photo id and the descriptor given to an image at
\* ingestion depend on its original filename alone.
C9_IdAndDescriptorFromNameAlone ==
  \A r1 \in ingested, r2 \in ingested :
    r1.name = r2.name => (r1.photoId = r2.photoId /\ r1.descriptor = r2.descriptor)

\* C9 amended: the descriptor depends on the filename alone; the photo id
\* depends on the filename alone when the base name has at most 20
\* characters, and is otherwise the position the file takes in the session
\* list (counted from 1, padded with zeros to three digits).
C9_DescriptorFromNameIdFromShortName ==
  \A r1 \in ingested, r2 \in ingested :
    r1.name = r2.name =>
      /\ r1.descriptor = r2.descriptor
      /\ Len(baseNameOf(r1.name)) <= 20 => r1.photoId = r2.photoId
      /\ Len(baseNameOf(r1.name)) > 20 => r1.photoId = PadStart(DecimalDigits(r1.index + 1), 3)

\* the same short-named file has been ingested at two positions, and so has
\* the same long-named file
C9_Witness ==
  /\ \E r1 \in ingested, r2 \in ingested :
       r1.name = FileShort.name /\ r2.name = FileShort.name /\ r1.index # r2.index
  /\ \E r1 \in ingested, r2 \in ingested :
       r1.name = FileLong.name /\ r2.name = FileLong.name /\ r1.index # r2.index

----------------------------------------------------------------------------
(* Validation with up to twelve gaps: SpecGap *)

\* the session after the user has dropped FileShort and FileLong together
GapImages == Dropped(<<FileShort, FileLong>>)

\* that session on the Export page, with web and any other formats ticked and
\* no metadata generated yet
InitGap ==
  /\ images = GapImages
  /\ selectedImageIds = {}
  /\ metadataMap = <<>>
  /\ nextId = Len(GapImages)
  /\ revoked = {}
  /\ ingested = IngestedOf(GapImages)
  /\ InitPanel
  /\ InitAsync
  /\ selectedFormats \in {formats \in SUBSET Range(exportPresets) : "web" \in formats}
  /\ isExporting = FALSE
  /\ progress = IdleProgress
  /\ exportError = NoError
  /\ run = IdleRun
  /\ dimIn = NoSize /\ dimOut = NoSize
  /\ slugIn = NoSlugs /\ slugOut = NoSlugs

NextGap ==
  \/ \E id \in ImageIds : BetweenRuns /\ ToggleSelection(id)
  \/ \E id \in ImageIds : BetweenRuns /\ GenerateMetadataForImage(id, "web", InitialLocation)
  \/ ExportRun

SpecGap == InitGap /\ [][NextGap]_vars

\* the (image, surface) pairs of the selection that lack metadata
MissingPairs ==
  {pair \in (1..Len(imagesToExport)) \X selectedFormats :
     LET meta == MetaOf(metadataMap, imagesToExport[pair[1]].id, pair[2])
     IN  meta = NoMeta \/ meta.slugBase = "" \/ meta.newFilename = ""}

\* the entries of an error's details that name a pair
ListedPairs(details) == {i \in 1..Len(details) : "imageName" \in DOMAIN details[i]}

\* a step in which validation reports missing metadata
ReportsMissing ==
  /\ run.pc = "idle"
  /\ exportError' # exportError
  /\ exportError' # NoError
  /\ exportError'.message = "Missing metadata. Please run Optimize first."

----------------------------------------------------------------------------
(* Generation for one ingested image: SpecGen *)

\* the location the user types for the example session
LocationSoHoNYC == <<"S","o","H","o",","," ","N","Y","C">>

GenLocations == {InitialLocation, LocationSoHoNYC}

\* the platform ids generateMetadataForImage is called with: the keys of the
\* export profiles and the id the optimization panel gives its website tab
GenPlatformIds == Range(PLATFORM_KEYS) \cup {"website"}

\* the session after the user has dropped IMG_4521.jpg
InitGen ==
  /\ images = Dropped(<<FileShort>>)
  /\ selectedImageIds = {}
  /\ metadataMap = <<>>
  /\ nextId = Len(images)
  /\ revoked = {}
  /\ ingested = IngestedOf(images)
  /\ InitPanel
  /\ InitAsync
  /\ InitExport
  /\ dimIn = NoSize /\ dimOut = NoSize
  /\ slugIn = NoSlugs /\ slugOut = NoSlugs

NextGen ==
  \E id \in ImageIds, pk \in GenPlatformIds, location \in GenLocations :
    GenerateMetadataForImage(id, pk, location)

SpecGen == InitGen /\ [][NextGen]_vars

\* the extensions a generated file may carry
Extensions == {"jpg", "jpeg", "png", "webp", "tiff"}

\* the token makeFilenames writes for a platform key
SurfaceToken(pk) ==
  CASE pk = "web" -> "web"
    [] pk = "instagram" -> "ig"
    [] pk = "pinterest" -> "pin"
    [] pk = "google-business" -> "gbp"
    [] pk = "messaging" -> "msg"
    [] pk = "print" -> "print"
    [] OTHER -> "web"

KeywordGroups == {Str(slugify(FirstTwoWords(ImageKeywordMaster)))}
DescriptorGroups ==
  {Str(slugify(FirstTwoWords(SPACE_DESCRIPTORS[i]))) : i \in 1..Len(SPACE_DESCRIPTORS)}

\* the web metadata of IMG_4521.jpg generated for the location "SoHo, NYC"
ExampleWebMeta == MetaOf(metadataMap, 1, "web")
ExampleGenerated ==
  /\ images[1].name = FileShort.name
  /\ ExampleWebMeta # NoMeta
  /\ ExampleWebMeta.neighborhood = "SoHo"
  /\ ExampleWebMeta.city = "NYC"

\* C12 as stated: for IMG_4521.jpg, location "SoHo, NYC" and surface web the
\* generated filename is studio-soho-nyc__<keyword>__<descriptor>__img4521__web.jpg.
C12_ExampleFilenameImg4521 ==
  ExampleGenerated =>
    \E k \in KeywordGroups, d \in DescriptorGroups :
      ExampleWebMeta.newFilename =
        "studio-soho-nyc__" \o k \o "__" \o d \o "__img4521__web.jpg"

\* C12 amended: for IMG_4521.jpg, location "SoHo, NYC" and surface web the
\* generated filename is studio-soho-nyc__<keyword>__<descriptor>__img_4521__web.jpg:
\* the location group is studio-soho-nyc, the photo id group keeps the
\* underscore of the name and the suffix is __web.jpg.
C12_ExampleFilenameKeepsUnderscore ==
  ExampleGenerated =>
    /\ \E k \in KeywordGroups, d \in DescriptorGroups :
         ExampleWebMeta.newFilename =
           "studio-soho-nyc__" \o k \o "__" \o d \o "__img_4521__web.jpg"
    /\ ExampleWebMeta.newFilename =
         "studio-soho-nyc__open-floor__curated-design__img_4521__web.jpg"

C12_Witness == ExampleGenerated /\ ExampleWebMeta.slugBase # ""

----------------------------------------------------------------------------
(* Decomposing a slug base: SpecGroups *)

\* the identity fields of an image in a city the user typed
GroupFields(descriptor, city, photoId) ==
  [spaceName |-> SPACE_CONFIG.spaceName,
   neighborhood |-> SPACE_CONFIG.neighborhood,
   city |-> city,
   keywordMaster |-> ImageKeywordMaster,
   descriptor |-> descriptor,
   photoId |-> photoId]

\* cities the user may type: plain, with an inner, a trailing and a double
\* underscore
Cities == {<<"N","Y","C">>, <<"L","_","A">>, <<"R","i","o","_">>, <<"_","_">>}

InitGroups ==
  /\ InitSession
  /\ InitExport
  /\ dimIn = NoSize /\ dimOut = NoSize
  /\ slugIn \in [descriptor : {SPACE_DESCRIPTORS[1], SPACE_DESCRIPTORS[11]},
                 city : Cities, photoId : Texts]
  /\ slugOut = NoSlugs

BuildSlugBase ==
  /\ slugIn # NoSlugs /\ slugOut = NoSlugs
  /\ slugOut' = [slug |-> makeSlugBase(GroupFields(slugIn.descriptor, slugIn.city, slugIn.photoId))]
  /\ UNCHANGED <<sessionVars, exportVars, dimVars, slugIn, panelVars, asyncVars>>

NextGroups == BuildSlugBase

SpecGroups == InitGroups /\ [][NextGroups]_vars

\* the number of underscores that end just before position i of s
UnderscoresBefore(s, i) ==
  LET others == {j \in 1..(i - 1) : s[j] # "_"}
  IN  IF others = {} THEN i - 1
      ELSE i - 1 - (CHOOSE j \in others : \A k \in others : k <= j)

\* where s.split("__") finds its separators: leftmost first, never overlapping
SeparatorStarts(s) ==
  {i \in 1..(Len(s) - 1) :
     s[i] = "_" /\ s[i + 1] = "_" /\ UnderscoresBefore(s, i) % 2 = 0}

\* s.split("__")
SplitGroups(s) ==
  LET starts == SeparatorStarts(s)
      n == Cardinality(starts)
      at == [k \in 1..n |-> CHOOSE i \in starts : Cardinality({j \in starts : j < i}) = k - 1]
  IN  [k \in 1..(n + 1) |->
         SubSeq(s, IF k = 1 THEN 1 ELSE at[k - 1] + 2,
                   IF k = n + 1 THEN Len(s) ELSE at[k] - 1)]

HasDoubleUnderscore(s) == \E i \in 1..(Len(s) - 1) : s[i] = "_" /\ s[i + 1] = "_"

LocationTriple(params) ==
  slugify(params.spaceName) \o <<"-">> \o slugify(params.neighborhood) \o <<"-">>
    \o slugify(params.city)

GroupsIn == GroupFields(slugIn.descriptor, slugIn.city, slugIn.photoId)

JoinedGroups ==
  <<LocationTriple(GroupsIn), slugify(FirstTwoWords(GroupsIn.keywordMaster)),
    slugify(FirstTwoWords(GroupsIn.descriptor)), slugify(GroupsIn.photoId)>>

\* no joined group holds a double underscore and none of the first three
\* ends with an underscore
GroupsSeparable ==
  \A k \in 1..4 :
    /\ ~HasDoubleUnderscore(JoinedGroups[k])
    /\ (k < 4 /\ JoinedGroups[k] # <<>>) => JoinedGroups[k][Len(JoinedGroups[k])] # "_"

----------------------------------------------------------------------------
(* The text normalizer on arbitrary text: SpecNorm *)

\* a text has at most this many characters
MaxNormLen == 3

\* a letter of each case, an accented letter and a bare accent, a comma, a
\* blank, the two safe marks and an unsafe mark
NormChars == {"a", "A", EAcute, CombiningAcute, ",", " ", "-", "_", "!"}

NormTexts == UNION {[1..n -> NormChars] : n \in 0..MaxNormLen}

InitNorm ==
  /\ InitSession
  /\ InitExport
  /\ dimIn = NoSize /\ dimOut = NoSize
  /\ slugIn \in [text : NormTexts]
  /\ slugOut = NoSlugs

\* slugify applied to the text and again to its result
Normalize ==
  /\ slugIn # NoSlugs /\ slugOut = NoSlugs
  /\ slugOut' = [once |-> slugify(slugIn.text), twice |-> slugify(slugify(slugIn.text))]
  /\ UNCHANGED <<sessionVars, exportVars, dimVars, slugIn, panelVars, asyncVars>>

NextNorm == Normalize

SpecNorm == InitNorm /\ [][NextNorm]_vars

\* C14: the text normalizer is idempotent, slugify(slugify(t)) = slugify(t)
\* for every text t, and it maps the empty string to the empty string.
C14_SlugifyIdempotent ==
  slugOut # NoSlugs =>
    /\ slugOut.twice = slugOut.once
    /\ slugIn.text = <<>> => slugOut.once = <<>>

\* a text which normalization changes in every step has been normalized twice
C14_Witness ==
  /\ slugOut # NoSlugs
  /\ slugIn.text = <<"-", " ", UpperEAcute>> \/ slugIn.text = <<" ", EAcute, ",">>
  /\ slugOut.once = <<"e">>

----------------------------------------------------------------------------
(* Parsing the active location: SpecLoc *)

\* a location has at most this many characters
MaxLocLen == 5

LocChars == {"a", ",", " "}

LocTexts == UNION {[1..n -> LocChars] : n \in 0..MaxLocLen}

InitLoc ==
  /\ InitSession
  /\ InitExport
  /\ dimIn = NoSize /\ dimOut = NoSize
  /\ slugIn \in [location : LocTexts]
  /\ slugOut = NoSlugs

ParseLocation ==
  /\ slugIn # NoSlugs /\ slugOut = NoSlugs
  /\ slugOut' = parseLocation(slugIn.location)
  /\ UNCHANGED <<sessionVars, exportVars, dimVars, slugIn, panelVars, asyncVars>>

NextLoc == ParseLocation

SpecLoc == InitLoc /\ [][NextLoc]_vars

Commas(s) == {i \in 1..Len(s) : s[i] = ","}

FirstComma(s) == CHOOSE i \in Commas(s) : \A j \in Commas(s) : i <= j

BeforeFirstComma(s) == SubSeq(s, 1, FirstComma(s) - 1)

AfterFirstComma(s) == SubSeq(s, FirstComma(s) + 1, Len(s))

\* C15 as stated: the location is split at its first comma only; the
\* sub-location is the trimmed text before it and the city is the whole
\* trimmed text after it, later commas included.
C15_SplitAtFirstCommaOnly ==
  (slugOut # NoSlugs /\ Commas(slugIn.location) # {}) =>
    /\ slugOut.neighborhood = Trim(BeforeFirstComma(slugIn.location))
    /\ slugOut.city = Trim(AfterFirstComma(slugIn.location))

\* C15 amended: the location is split at every comma. The sub-location is the
\* trimmed text before the first comma. With one comma the city is the
\* trimmed text after it; with more, the city holds no comma: it is made of
\* the trimmed pieces between the later commas, in order, with blanks
\* between them. Without a comma the sub-location is the location as typed
\* (SoHo when it is empty) and the city is NYC.
C15_SplitAtEveryComma ==
  slugOut # NoSlugs =>
    LET location == slugIn.location
    IN  /\ Commas(location) # {} =>
             /\ slugOut.neighborhood = Trim(BeforeFirstComma(location))
             /\ "," \notin Range(slugOut.city)
             /\ RemoveChars(slugOut.city, {" "}) =
                  RemoveChars(AfterFirstComma(location), {" ", ","})
             /\ slugOut.city = Trim(slugOut.city)
             /\ Cardinality(Commas(location)) = 1 =>
                  slugOut.city = Trim(AfterFirstComma(location))
        /\ Commas(location) = {} =>
             /\ slugOut.neighborhood =
                  IF location = <<>> THEN SPACE_CONFIG.neighborhood ELSE location
             /\ slugOut.city = SPACE_CONFIG.city

\* a location with two commas has been parsed
C15_Witness ==
  /\ slugOut # NoSlugs
  /\ slugIn.location = <<"a", ",", "a", ",", "a">>
  /\ slugOut.city = <<"a", " ", "a">>

----------------------------------------------------------------------------
(* The manifests and folders of a run: Spec *)

\* C16: the wide-form manifest of an export run has exactly one row for every
\* image of the export set, whichever surfaces are selected and whichever
\* surfaces have metadata.
C16_MasterManifestRowPerImage ==
  [][MasterManifest => generateMasterCSV(run.images, run.metadataMap) = run.images]_vars

\* C17: whenever an export run reaches Finalized, the archive root holds
\* metadata.csv and metadata_master.csv and the archive has one top-level
\* folder for each selected surface key.
C17_FinalizedArchiveHasManifestsAndFolders ==
  run.pc = "finalized" =>
    /\ {"metadata.csv", "metadata_master.csv"} \subseteq run.zipRoot
    /\ run.zipFolders = Range(run.platforms)

----------------------------------------------------------------------------
(* Texts typed into the optimization panel, then exported: SpecText *)

\* what the user types into the caption textarea: a comma, a double quote and
\* a line break; the same with a backslash and the letter n for the break
CaptionWithBreak == <<"a", ",", "\"", "\n", "b">>
CaptionWithBackslashN == <<"a", ",", "\"", "\\", "n", "b">>

\* two lines as a form posts them, with a carriage return and a line feed
CaptionWithCRLF == <<"a", "\r", "\n", "b">>

TypedCaptions == {CaptionWithBreak, CaptionWithBackslashN, CaptionWithCRLF}

\* what the user types into the alt text textarea: two lines
AltTextWithBreak == <<"A", "\n", "b">>

TypedAltTexts == {AltTextWithBreak}

\* the session after the user has dropped IMG_4521.jpg
InitText ==
  /\ images = Dropped(<<FileShort>>)
  /\ selectedImageIds = {}
  /\ metadataMap = <<>>
  /\ nextId = Len(images)
  /\ revoked = {}
  /\ ingested = IngestedOf(images)
  /\ InitPanel
  /\ InitAsync
  /\ InitExport
  /\ dimIn = NoSize /\ dimOut = NoSize
  /\ slugIn = NoSlugs /\ slugOut = NoSlugs

NextText ==
  \/ \E id \in ImageIds : BetweenRuns /\ GenerateMetadataForImage(id, "web", InitialLocation)
  \/ \E id \in ImageIds, caption \in TypedCaptions :
       BetweenRuns /\ UpdateMetadata(id, "web", "caption", caption)
  \/ \E id \in ImageIds, altText \in TypedAltTexts :
       BetweenRuns /\ UpdateMetadata(id, "web", "altText", altText)
  \/ ExportRun

SpecText == InitText /\ [][NextText]_vars

\* metadata.csv has been written from the rows of the run
LongFormWritten == run.pc # "idle" /\ "metadata.csv" \in run.zipRoot

LineBreaks == {"\n", "\r"}

\* C18: every long-form manifest row is one physical line: once the manifests
\* are built no field of a long-form row (caption, alt text or any other
\* column) holds a raw CR or LF, whatever text the persisted metadata holds.
C18_LongFormRowsHaveNoLineBreak ==
  LongFormWritten =>
    \A n \in 1..Len(run.csvRows) :
      /\ Range(run.csvRows[n].caption) \cap LineBreaks = {}
      /\ Range(run.csvRows[n].alt_text) \cap LineBreaks = {}

----------------------------------------------------------------------------
(* Escaping a caption for the long-form manifest: SpecEscape *)

\* what follows the comma and the double quote of a caption has at most this
\* many characters
MaxBreakLen == 2

\* a line feed, a carriage return, a backslash and the letter n
BreakChars == {"\n", "\r", "\\", "n"}

BreakTexts == UNION {[1..n -> BreakChars] : n \in 0..MaxBreakLen}

\* captions that hold a comma, a double quote and line breaks
Captions == {<<"a", ",", "\"">> \o t : t \in BreakTexts}

InitEscape ==
  /\ InitSession
  /\ InitExport
  /\ dimIn = NoSize /\ dimOut = NoSize
  /\ slugIn \in [a : Captions, b : Captions]
  /\ slugOut = NoSlugs

\* the caption fields metadata.csv gets for the two captions
EscapeCaptions ==
  /\ slugIn # NoSlugs /\ slugOut = NoSlugs
  /\ slugOut' = [a |-> EscapedCaption(slugIn.a), b |-> EscapedCaption(slugIn.b)]
  /\ UNCHANGED <<sessionVars, exportVars, dimVars, slugIn, panelVars, asyncVars>>

NextEscape == EscapeCaptions

SpecEscape == InitEscape /\ [][NextEscape]_vars

\* C19: a caption with a comma, a double quote and a newline survives the
\* export escaping without loss: two different captions never produce the
\* same escaped field, so the caption can be recovered from the field.
C19_DifferentCaptionsDifferentFields ==
  (slugOut # NoSlugs /\ slugIn.a # slugIn.b) => slugOut.a # slugOut.b

----------------------------------------------------------------------------
(* The optimization panel after a validation abort: SpecPanel *)

\* the ids of the panel's tabs
platforms == <<"website", "google-maps", "instagram", "pinterest", "messaging", "print">>

\* the tab the panel offers for a surface key: Website (SEO) for web, Google
\* Maps for google-business, the tab of the same id for the others
TabOf(pk) ==
  CASE pk = "web" -> "website"
    [] pk = "google-business" -> "google-maps"
    [] OTHER -> pk

\* onClick of a tab
SetCurrentPlatform(id) ==
  /\ currentPlatform' = id
  /\ UNCHANGED <<sessionVars, exportVars, dimVars, slugVars, generatedOn, asyncVars>>

\* the metadataMap generateMetadataForAll leaves: an entry under platform for
\* every selected image
RECURSIVE generateMetadataForAll(_, _, _, _)
generateMetadataForAll(map, selected, platform, location) ==
  IF selected = <<>> THEN map
  ELSE generateMetadataForAll(
         SetMeta(map, Head(selected).id, platform,
                 metadataForImage(Head(selected), platform, location)),
         Tail(selected), platform, location)

\* the export page shows the error of a validation abort
MissingMetadataShown ==
  /\ exportError # NoError
  /\ exportError.message = "Missing metadata. Please run Optimize first."

\* handleGenerateAll and its timer: generateMetadataForAll for the tab and the
\* selection of the click (the timer's callback holds the values of the render
\* in which the button was clicked).  The page shows the panel only while
\* images are selected.
HandleGenerateAll(location) ==
  /\ getSelectedImages # <<>>
  /\ metadataMap' = generateMetadataForAll(metadataMap, getSelectedImages, currentPlatform, location)
  /\ run' = IF run.pc = "idle" THEN run
            ELSE [run EXCEPT !.metadataMap =
                    generateMetadataForAll(
                      @, SelectSeq(getSelectedImages,
                                   LAMBDA image : /\ image.id \in DOMAIN run.metadataMap
                                                  /\ image.id \in DOMAIN metadataMap),
                      currentPlatform, location)]
  /\ generatedOn' = IF MissingMetadataShown
                    THEN generatedOn \cup {<<id, currentPlatform>> : id \in selectedImageIds \cap ImageIds}
                    ELSE generatedOn
  /\ UNCHANGED <<images, selectedImageIds, nextId, revoked, ingested, selectedFormats,
                 isExporting, progress, exportError, dimVars, slugVars, currentPlatform, asyncVars>>

\* the tabs the user clicks and the formats the export page has selected
PanelTabs == {"website", "google-maps", "instagram"}
PanelFormats == {{"web"}, {"instagram"}, {"google-business"}, {"web", "instagram"}}

\* the session after the user has dropped IMG_4521.jpg and selected it
InitPanelSession ==
  /\ images = Dropped(<<FileShort>>)
  /\ selectedImageIds = {1}
  /\ metadataMap = <<>>
  /\ nextId = Len(images)
  /\ revoked = {}
  /\ ingested = IngestedOf(images)
  /\ InitPanel
  /\ InitAsync
  /\ selectedFormats \in PanelFormats
  /\ isExporting = FALSE
  /\ progress = IdleProgress
  /\ exportError = NoError
  /\ run = IdleRun
  /\ dimIn = NoSize /\ dimOut = NoSize
  /\ slugIn = NoSlugs /\ slugOut = NoSlugs

NextPanel ==
  \/ \E id \in PanelTabs : BetweenRuns /\ SetCurrentPlatform(id)
  \/ BetweenRuns /\ HandleGenerateAll(InitialLocation)
  \/ ExportRun

SpecPanel == InitPanelSession /\ [][NextPanel]_vars

\* the pairs validation would report now
StillMissing == checkMissingMetadata(imagesToExport, selectedPlatformKeys, metadataMap)

\* after the abort the panel has run generation on the tab of every surface
\* that is missing for an image of the export
MissingSurfacesRegenerated ==
  \A n \in 1..Len(StillMissing) :
    <<StillMissing[n].imageId, TabOf(StillMissing[n].platformKey)>> \in generatedOn

\* C20: after an export run has aborted in validation, running generation for
\* the export's images on each missing surface, as the optimization panel
\* offers it, makes the next run over the same images and surfaces pass
\* validation: nothing is missing any more.
C20_GenerationRecoversAbort ==
  (run.pc = "idle" /\ MissingMetadataShown /\ MissingSurfacesRegenerated) => StillMissing = <<>>

----------------------------------------------------------------------------
(* Captions per surface: SpecGen *)

\* the surfaces the caption switch of generateMetadataForImage has no case for
SurfacesWithoutCase == {"messaging", "print"}

\* C21: the caption generated for a surface follows that surface's own
\* template: for one image and one location the messaging caption (a one-line
\* teaser) and the print caption (a copyright line with the year) each differ
\* from the general-web caption.
C21_MessagingAndPrintCaptionsOwnTemplate ==
  \A id \in DOMAIN metadataMap : \A pk \in SurfacesWithoutCase :
    LET web == MetaOf(metadataMap, id, "web")
        own == MetaOf(metadataMap, id, pk)
    IN  (web # NoMeta /\ own # NoMeta /\ web.city = own.city /\ web.neighborhood = own.neighborhood)
          => own.caption # web.caption

----------------------------------------------------------------------------
(* The phases of one export run: Spec *)

\* the phase a position of handleExportPack belongs to: 0 Idle, 1 validated
\* and rows built, 2 transcoding, 3 self-test, 4 packaging, 5 Finalized
PhaseOf(pc) ==
  CASE pc = "idle" -> 0
    [] pc = "folders" -> 1
    [] pc \in {"loading", "encoding"} -> 2
    [] pc = "selftest" -> 3
    [] pc \in {"master", "compress", "compressing"} -> 4
    [] pc = "finalized" -> 5

\* a run goes from phase to phase in order, or ends
PhaseStep ==
  run'.pc # run.pc =>
    \/ run'.pc = "idle" /\ run.pc \in {"selftest", "compressing", "finalized"}
    \/ run'.pc # "idle" /\ PhaseOf(run'.pc) \in {PhaseOf(run.pc), PhaseOf(run.pc) + 1}

\* what the archive of a run holds is allowed by the phase the run is in
PhaseHolds ==
  run.pc # "idle" =>
    /\ checkMissingMetadata(run.images, run.platforms, run.metadataMap) = <<>>
    /\ Len(run.csvRows) = Len(run.images) * Len(run.platforms)
    /\ run.zipFiles # {} => PhaseOf(run.pc) >= 2
    /\ (run.zipRoot # {} \/ PhaseOf(run.pc) >= 4) =>
         /\ PhaseOf(run.pc) >= 4
         /\ run.addedFileCount = run.expectedFileCount
         /\ Len(run.csvRows) = run.expectedFileCount

\* C22: the phases of one export run occur in the order validate, build
\* manifests, transcode, self-test, package: no artifact is transcoded before
\* validation has passed and the rows are built, and no manifest is
\* serialized and no archive compressed before the self-test has passed.
C22_PhasesInFixedOrder == [][PhaseStep /\ PhaseHolds']_vars

\* a run has gone through all phases: its archive holds an artifact and the
\* long-form manifest
C22_Witness ==
  /\ run.pc = "finalized"
  /\ run.zipFiles # {}
  /\ "metadata.csv" \in run.zipRoot
  /\ progress.isComplete


----------------------------------------------------------------------------
(* The export page is left and opened again while its call is in flight *)

\* the session the page is opened on: one image with web and instagram
\* metadata, selected
RemountImages == Dropped(<<FileShort>>)

RemountMetadata ==
  generateMetadataForAll(
    generateMetadataForAll(<<>>, RemountImages, "web", InitialLocation),
    RemountImages, "instagram", InitialLocation)

InitRemount ==
  /\ images = RemountImages
  /\ selectedImageIds = {1}
  /\ metadataMap = RemountMetadata
  /\ nextId = Len(images)
  /\ revoked = {}
  /\ ingested = IngestedOf(images)
  /\ InitPanel
  /\ InitAsync
  /\ InitExport
  /\ dimIn = NoSize /\ dimOut = NoSize
  /\ slugIn = NoSlugs /\ slugOut = NoSlugs

\* App.tsx 22-31: "/export" is one route of several, so going to another
\* route unmounts Export and coming back mounts a new one, whose useState
\* hooks (part_001 665-670) start from their initial values.  The call of
\* handleExportPack the old page started keeps running: nothing cancels it,
\* and its setState calls go to the page that is gone.  One earlier call is
\* followed.
Remount ==
  /\ run.pc # "idle"
  /\ orphan.pc = "idle"
  /\ orphan' = run
  /\ run' = IdleRun
  /\ selectedFormats' = {"web"}
  /\ isExporting' = FALSE
  /\ progress' = IdleProgress
  /\ exportError' = NoError
  /\ UNCHANGED <<sessionVars, dimVars, slugVars, panelVars, timers>>

\* Continue for the call of the page that is gone: the same loop head, its
\* setProgress is lost
OrphanContinue(r) ==
  IF r.entry < Len(r.fileEntries)
  THEN orphan' = [r EXCEPT !.entry = @ + 1, !.currentStep = @ + 1, !.pc = "loading"]
  ELSE orphan' = [r EXCEPT !.currentStep = @ + 1, !.pc = "selftest",
                           !.manifest = ExportManifest(r)]

\* CreateFolders of the earlier call
OrphanCreateFolders ==
  /\ orphan.pc = "folders"
  /\ OrphanContinue([orphan EXCEPT !.zipFolders = Range(orphan.platforms)])
  /\ UNCHANGED <<sessionVars, exportVars, dimVars, slugVars, panelVars, timers>>

\* LoadFails of the earlier call
OrphanLoadFails ==
  /\ orphan.pc = "loading"
  /\ OrphanContinue([orphan EXCEPT !.skipped = @ \cup {orphan.entry}])
  /\ UNCHANGED <<sessionVars, exportVars, dimVars, slugVars, panelVars, timers>>

\* LoadResolves of the earlier call
OrphanLoadResolves(halfUp) ==
  /\ orphan.pc = "loading"
  /\ orphan.fileEntries[orphan.entry].image.id \notin revoked
  /\ orphan' = [orphan EXCEPT
                  !.pc = "encoding",
                  !.size = calculateDimensions(
                             orphan.fileEntries[orphan.entry].image.file.naturalWidth,
                             orphan.fileEntries[orphan.entry].image.file.naturalHeight,
                             platformExportConfigs[orphan.fileEntries[orphan.entry].platformKey].maxDimension,
                             halfUp)]
  /\ UNCHANGED <<sessionVars, exportVars, dimVars, slugVars, panelVars, timers>>

\* EncodeFails of the earlier call
OrphanEncodeFails ==
  /\ orphan.pc = "encoding"
  /\ OrphanContinue([orphan EXCEPT !.skipped = @ \cup {orphan.entry}])
  /\ UNCHANGED <<sessionVars, exportVars, dimVars, slugVars, panelVars, timers>>

\* EncodeResolves of the earlier call
OrphanEncodeResolves ==
  /\ orphan.pc = "encoding"
  /\ orphan.size.width > 0 /\ orphan.size.height > 0
  /\ OrphanContinue([orphan EXCEPT
                       !.zipFiles = ZipFile(@, orphan.fileEntries[orphan.entry].platformKey,
                                            orphan.fileEntries[orphan.entry].filename),
                       !.addedFileCount = @ + 1])
  /\ UNCHANGED <<sessionVars, exportVars, dimVars, slugVars, panelVars, timers>>

\* lines 959-1018 of the earlier call: after its loop it transcodes nothing
\* more, and what it sets belongs to the page that is gone
OrphanEnds ==
  /\ orphan.pc = "selftest"
  /\ orphan' = IdleRun
  /\ UNCHANGED <<sessionVars, exportVars, dimVars, slugVars, panelVars, timers>>

OrphanRun ==
  \/ OrphanCreateFolders
  \/ OrphanLoadFails
  \/ \E halfUp \in HalfUps : OrphanLoadResolves(halfUp)
  \/ OrphanEncodeFails
  \/ OrphanEncodeResolves
  \/ OrphanEnds

NextRemount ==
  \/ \E id \in Formats : BetweenRuns /\ ToggleFormat(id)
  \/ ExportRun
  \/ Remount
  \/ OrphanRun

SpecRemount == InitRemount /\ [][NextRemount]_vars

\* a call of handleExportPack is between starting loadImage for a pair and
\* the end of that pair's toBlob
Transcoding(r) == r.pc \in {"loading", "encoding"}

\* C23: at no time are two transcoding operations in progress: while one call
\* of handleExportPack is loading or encoding a pair, no other call is.
C23_OneTranscodingAtATime == ~(Transcoding(run) /\ Transcoding(orphan))


----------------------------------------------------------------------------
(* A started run ends *)

\* the steps of a started call of handleExportPack: the 50 ms timers, the
\* settling of loadImage, of toBlob and of generateAsync, the 2 s timer
RunStep ==
  \/ CreateFolders
  \/ LoadFails
  \/ RenderFails
  \/ \E halfUp \in HalfUps : LoadResolves(halfUp)
  \/ EncodeFails
  \/ EncodeResolves
  \/ SelfTest
  \/ MasterManifest
  \/ Compress
  \/ Download
  \/ CompressFails
  \/ FinishTimer

\* two images with web and instagram metadata, both selected
LiveImages == Dropped(<<FileShort, FileLong>>)

InitLive ==
  /\ images = LiveImages
  /\ selectedImageIds = {1, 2}
  /\ metadataMap = generateMetadataForAll(
                     generateMetadataForAll(<<>>, LiveImages, "web", InitialLocation),
                     LiveImages, "instagram", InitialLocation)
  /\ nextId = Len(images)
  /\ revoked = {}
  /\ ingested = IngestedOf(images)
  /\ InitPanel
  /\ InitAsync
  /\ InitExport
  /\ dimIn = NoSize /\ dimOut = NoSize
  /\ slugIn = NoSlugs /\ slugOut = NoSlugs

NextLive ==
  \/ \E id \in ImageIds : BetweenRuns /\ ToggleSelection(id)
  \/ \E id \in Formats : BetweenRuns /\ ToggleFormat(id)
  \/ ExportStart
  \/ RunStep

\* The browser runs every timer callback that is due and every promise the
\* call awaits is taken to settle: a started call is not left waiting for
\* ever.  Whether the user clicks is up to the user.
SpecLive == InitLive /\ [][NextLive]_vars /\ WF_vars(RunStep)

\* the call has handed the archive to the browser
Finalized == run.pc = "finalized"

\* the call has returned after setExportError
Aborted == run.pc = "idle" /\ exportError # NoError

\* C24: a run that has started (isExporting holds) eventually reaches
\* Finalized or Aborted, and isExporting eventually is false again.
C24_StartedRunEnds ==
  /\ isExporting ~> (Finalized \/ Aborted)
  /\ isExporting ~> ~isExporting

\* a run has ended by the self-test and the export button is enabled again
C24_Witness ==
  /\ Aborted
  /\ exportError.message = "Self-test failed: ZIP/CSV mismatch"
  /\ ~isExporting
  /\ canExport


----------------------------------------------------------------------------
(* Archive paths of one run *)

\* the path an entry of the run is written to: platform folder and filename
ArchivePath(entry) == <<entry.platformKey, entry.filename>>

\* C25: in a run no two different (image, surface) pairs are written to the
\* same archive path.
C25_ArchivePathsPairwiseDifferent ==
  run.pc # "idle" =>
    \A i, j \in 1..Len(run.fileEntries) :
      i # j => ArchivePath(run.fileEntries[i]) # ArchivePath(run.fileEntries[j])


----------------------------------------------------------------------------
(* The session's operations and the panel's delayed generation *)

\* clearImages, ImageContext.tsx 189-194
ClearImages ==
  /\ images' = <<>>
  /\ revoked' = revoked \cup ImageIds
  /\ selectedImageIds' = {}
  /\ metadataMap' = <<>>
  /\ UNCHANGED <<nextId, ingested, exportVars, dimVars, slugVars, panelVars, asyncVars>>

\* selectAll, ImageContext.tsx 251-257: compares the two sizes
SelectAll ==
  /\ selectedImageIds' = IF Cardinality(selectedImageIds) = Len(images)
                         THEN {}
                         ELSE ImageIds
  /\ UNCHANGED <<images, metadataMap, nextId, revoked, ingested, exportVars, dimVars,
                 slugVars, panelVars, asyncVars>>

\* clearSelection, ImageContext.tsx 259-261
ClearSelection ==
  /\ selectedImageIds' = {}
  /\ UNCHANGED <<images, metadataMap, nextId, revoked, ingested, exportVars, dimVars,
                 slugVars, panelVars, asyncVars>>

\* handleGenerateCurrent, part_000 82-89: the click sets an 800 ms timer.  Its
\* callback closes over the render of the click: currentImage, currentPlatform,
\* currentLocation and that render's generateMetadataForImage, whose `images`
\* is the list of that render.  The buttons are disabled while isGenerating
\* holds, so one timer is pending at most.
HandleGenerateCurrent(index, location) ==
  /\ timers = {}
  /\ index \in 1..Len(getSelectedImages)
  /\ timers' = {[kind |-> "current",
                 selected |-> <<getSelectedImages[index]>>,
                 platform |-> currentPlatform,
                 location |-> location]}
  /\ UNCHANGED <<sessionVars, exportVars, dimVars, slugVars, panelVars, orphan>>

\* handleGenerateAll, part_000 91-98, as a click and a 1200 ms timer: the
\* callback's generateMetadataForAll reads the getSelectedImages of the
\* render of the click
ScheduleGenerateAll(location) ==
  /\ timers = {}
  /\ timers' = {[kind |-> "all",
                 selected |-> getSelectedImages,
                 platform |-> currentPlatform,
                 location |-> location]}
  /\ UNCHANGED <<sessionVars, exportVars, dimVars, slugVars, panelVars, orphan>>

\* The timer fires.  images.find of the captured list finds the image also
\* when the session has dropped it since, and setMetadataMap's updater sets
\* the entry on the Map of now (ImageContext.tsx 272-273, 340-346 and
\* 359-427).  markAsOptimized maps over the images of now and adds none.
GenerationTimeout(t) ==
  /\ t \in timers
  /\ timers' = timers \ {t}
  /\ metadataMap' = generateMetadataForAll(metadataMap, t.selected, t.platform, t.location)
  /\ run' = IF run.pc = "idle" THEN run
            ELSE [run EXCEPT !.metadataMap =
                    generateMetadataForAll(
                      @, SelectSeq(t.selected,
                                   LAMBDA image : /\ image.id \in DOMAIN run.metadataMap
                                                  /\ image.id \in DOMAIN metadataMap),
                      t.platform, t.location)]
  /\ generatedOn' = IF MissingMetadataShown
                    THEN generatedOn \cup {<<t.selected[i].id, t.platform>> : i \in 1..Len(t.selected)}
                    ELSE generatedOn
  /\ UNCHANGED <<images, selectedImageIds, nextId, revoked, ingested, selectedFormats,
                 isExporting, progress, exportError, dimVars, slugVars, currentPlatform, orphan>>

\* images uploaded in one session of SpecTimers, at most
MaxPanelUploads == 2

NextTimers ==
  \/ \E file \in Files : nextId < MaxPanelUploads /\ AddImages(<<file>>)
  \/ \E id \in ImageIds : RemoveImages({id})
  \/ ClearImages
  \/ \E id \in ImageIds : ToggleSelection(id)
  \/ SelectAll
  \/ ClearSelection
  \/ \E id \in ImageIds : GenerateMetadataForImage(id, currentPlatform, InitialLocation)
  \/ \E index \in 1..MaxPanelUploads : HandleGenerateCurrent(index, InitialLocation)
  \/ ScheduleGenerateAll(InitialLocation)
  \/ \E t \in timers : GenerationTimeout(t)

SpecTimers == Init /\ [][NextTimers]_vars

\* C26: every selected id and every key of the metadata table is the id of an
\* image of the session.
C26_SelectionAndMetadataOfSessionImages ==
  /\ selectedImageIds \subseteq ImageIds
  /\ DOMAIN metadataMap \subseteq ImageIds


----------------------------------------------------------------------------
(* The canvas of very narrow images: SpecDim *)

\* C27: for a source of at least 1x1 pixels, the canvas of every platform
\* profile is at least 1 pixel wide and 1 pixel high.
C27_CanvasAtLeastOnePixel ==
  (dimOut # NoSize /\ dimIn.width >= 1 /\ dimIn.height >= 1) =>
    /\ dimOut.size.width >= 1
    /\ dimOut.size.height >= 1


----------------------------------------------------------------------------
(* Progress events of long runs *)

\* Generate All on each of the tabs pks in turn
RECURSIVE GenerateAllOnTabs(_, _, _, _)
GenerateAllOnTabs(map, selected, pks, location) ==
  IF pks = <<>> THEN map
  ELSE GenerateAllOnTabs(generateMetadataForAll(map, selected, Head(pks), location),
                         selected, Tail(pks), location)

\* three images with metadata for every platform, every preset ticked: a run
\* of 18 pairs
ProgressImages == Dropped(<<FileShort, FileLong, FileShort>>)

InitProgress ==
  /\ images = ProgressImages
  /\ selectedImageIds = {}
  /\ metadataMap = GenerateAllOnTabs(<<>>, ProgressImages, PLATFORM_KEYS, InitialLocation)
  /\ nextId = Len(images)
  /\ revoked = {}
  /\ ingested = IngestedOf(images)
  /\ InitPanel
  /\ InitAsync
  /\ selectedFormats = Range(exportPresets)
  /\ isExporting = FALSE
  /\ progress = IdleProgress
  /\ exportError = NoError
  /\ run = IdleRun
  /\ dimIn = NoSize /\ dimOut = NoSize
  /\ slugIn = NoSlugs /\ slugOut = NoSlugs

\* Every decode and encode succeeds here: a pair that fails takes the same
\* progress step as one that succeeds (Continue).
NextProgress ==
  \/ \E id \in Range(exportPresets) : BetweenRuns /\ ToggleFormat(id)
  \/ ExportStart
  \/ CreateFolders
  \/ \E halfUp \in HalfUps : LoadResolves(halfUp)
  \/ EncodeResolves
  \/ SelfTest
  \/ MasterManifest
  \/ Compress
  \/ Download
  \/ FinishTimer

SpecProgress == InitProgress /\ [][NextProgress]_vars

\* a progress event of a run that has started and has not ended
ProgressEvent == run.pc # "idle" /\ run'.pc # "idle" /\ progress' # progress

\* C28: within a run the percentage of a progress event is never below that
\* of the event before it, and only the event with percentage 100 that ends
\* the run sets the completion flag.
C28_ProgressNeverDecreases ==
  [][/\ ProgressEvent => progress'.percentage >= progress.percentage
     /\ progress'.isComplete => (progress'.percentage = 100 /\ run'.pc = "finalized")]_vars


----------------------------------------------------------------------------
(* The three generation entry points side by side: SpecEntry *)

\* pinterestTitle and pinterestDescription as generateMetadataForImage sets
\* them (ImageContext.tsx 300-326): both '' unless the platform is pinterest
pinterestFieldsForImage(image, platform, location) ==
  LET loc == parseLocation(location)
  IN  IF platform = "pinterest"
      THEN [pinterestTitle |->
              makePinterestTitle(ImageKeywordMaster, image.descriptor, loc.neighborhood, loc.city),
            pinterestDescription |->
              makePinterestDescription(ImageKeywordMaster, image.descriptor, loc.neighborhood, loc.city)]
      ELSE [pinterestTitle |-> <<>>, pinterestDescription |-> <<>>]

\* the whole record generateMetadataForImage stores (ImageContext.tsx 328-340)
metadataWithPinterest(image, platform, location) ==
  metadataForImage(image, platform, location) @@ pinterestFieldsForImage(image, platform, location)

\* metadataForAllPlatforms with pinterest falling into the default case
metadataForAllPlatformsNoPinterestCase(image, platformKey, location) ==
  LET loc == parseLocation(location)
      slugBase == makeSlugBase([spaceName |-> SPACE_CONFIG.spaceName,
                                neighborhood |-> loc.neighborhood,
                                city |-> loc.city,
                                keywordMaster |-> ImageKeywordMaster,
                                descriptor |-> image.descriptor,
                                photoId |-> image.photoId])
      newFilename == makeFilenames(slugBase, platformKey)
      caption ==
        CASE platformKey = "instagram" ->
               makeCaptionInstagram(SPACE_CONFIG.spaceName, image.descriptor,
                                    <<ImageKeywordMaster, <<"n","a","t","u","r","a","l"," ","l","i","g","h","t">>, <<"f","l","e","x","i","b","l","e"," ","l","a","y","o","u","t">>>>,
                                    BookYourSession, ImageHashtags)
          [] platformKey = "google-business" ->
               makeCaptionGoogleBusiness(loc.neighborhood, loc.city, image.descriptor)
          [] OTHER ->
               makeCaptionWeb(SPACE_CONFIG.spaceName, loc.neighborhood, loc.city, image.descriptor)
  IN  [filename |-> Str(newFilename),
       altText |-> makeAltWeb(SPACE_CONFIG.spaceName, loc.neighborhood, loc.city, image.descriptor),
       caption |-> caption,
       descriptor |-> Str(image.descriptor),
       keywordMaster |-> Str(ImageKeywordMaster),
       slugBase |-> Str(slugBase),
       neighborhood |-> Str(loc.neighborhood),
       city |-> Str(loc.city),
       newFilename |-> Str(newFilename),
       pinterestTitle |-> <<>>,
       pinterestDescription |-> <<>>]

\* the record generateMetadataForAll builds for an image (ImageContext.tsx
\* 363-417): its switch has no case for web, pinterestDescription is the caption
metadataForAll(image, platform, location) ==
  LET loc == parseLocation(location)
      slugBase == makeSlugBase([spaceName |-> SPACE_CONFIG.spaceName,
                                neighborhood |-> loc.neighborhood,
                                city |-> loc.city,
                                keywordMaster |-> ImageKeywordMaster,
                                descriptor |-> image.descriptor,
                                photoId |-> image.photoId])
      newFilename == makeFilenames(slugBase, platform)
      caption ==
        CASE platform = "instagram" ->
               makeCaptionInstagram(SPACE_CONFIG.spaceName, image.descriptor,
                                    <<ImageKeywordMaster, <<"n","a","t","u","r","a","l"," ","l","i","g","h","t">>, <<"f","l","e","x","i","b","l","e"," ","l","a","y","o","u","t">>>>,
                                    BookYourSession, ImageHashtags)
          [] platform = "google-business" ->
               makeCaptionGoogleBusiness(loc.neighborhood, loc.city, image.descriptor)
          [] platform = "pinterest" ->
               makePinterestDescription(ImageKeywordMaster, image.descriptor, loc.neighborhood, loc.city)
          [] OTHER ->
               makeCaptionWeb(SPACE_CONFIG.spaceName, loc.neighborhood, loc.city, image.descriptor)
  IN  [filename |-> Str(newFilename),
       altText |-> makeAltWeb(SPACE_CONFIG.spaceName, loc.neighborhood, loc.city, image.descriptor),
       caption |-> caption,
       descriptor |-> Str(image.descriptor),
       keywordMaster |-> Str(ImageKeywordMaster),
       slugBase |-> Str(slugBase),
       neighborhood |-> Str(loc.neighborhood),
       city |-> Str(loc.city),
       newFilename |-> Str(newFilename),
       pinterestTitle |->
         IF platform = "pinterest"
         THEN makePinterestTitle(ImageKeywordMaster, image.descriptor, loc.neighborhood, loc.city)
         ELSE <<>>,
       pinterestDescription |-> IF platform = "pinterest" THEN caption ELSE <<>>]

\* the record generateMetadataForAllPlatforms builds for an image and a key
\* of PLATFORM_KEYS (ImageContext.tsx 460-500): the pinterest case sets the
\* description first and the caption from it
metadataForAllPlatforms(image, platformKey, location) ==
  LET loc == parseLocation(location)
      slugBase == makeSlugBase([spaceName |-> SPACE_CONFIG.spaceName,
                                neighborhood |-> loc.neighborhood,
                                city |-> loc.city,
                                keywordMaster |-> ImageKeywordMaster,
                                descriptor |-> image.descriptor,
                                photoId |-> image.photoId])
      newFilename == makeFilenames(slugBase, platformKey)
      pinterestDescription ==
        IF platformKey = "pinterest"
        THEN makePinterestDescription(ImageKeywordMaster, image.descriptor, loc.neighborhood, loc.city)
        ELSE <<>>
      caption ==
        CASE platformKey = "instagram" ->
               makeCaptionInstagram(SPACE_CONFIG.spaceName, image.descriptor,
                                    <<ImageKeywordMaster, <<"n","a","t","u","r","a","l"," ","l","i","g","h","t">>, <<"f","l","e","x","i","b","l","e"," ","l","a","y","o","u","t">>>>,
                                    BookYourSession, ImageHashtags)
          [] platformKey = "google-business" ->
               makeCaptionGoogleBusiness(loc.neighborhood, loc.city, image.descriptor)
          [] platformKey = "pinterest" -> pinterestDescription
          [] OTHER ->
               makeCaptionWeb(SPACE_CONFIG.spaceName, loc.neighborhood, loc.city, image.descriptor)
  IN  [filename |-> Str(newFilename),
       altText |-> makeAltWeb(SPACE_CONFIG.spaceName, loc.neighborhood, loc.city, image.descriptor),
       caption |-> caption,
       descriptor |-> Str(image.descriptor),
       keywordMaster |-> Str(ImageKeywordMaster),
       slugBase |-> Str(slugBase),
       neighborhood |-> Str(loc.neighborhood),
       city |-> Str(loc.city),
       newFilename |-> Str(newFilename),
       pinterestTitle |->
         IF platformKey = "pinterest"
         THEN makePinterestTitle(ImageKeywordMaster, image.descriptor, loc.neighborhood, loc.city)
         ELSE <<>>,
       pinterestDescription |-> pinterestDescription]

\* the table generateMetadataForImage leaves (ImageContext.tsx 272-273, 340-346)
tableForImage(imgs, map, imageId, platform, location) ==
  IF \A i \in 1..Len(imgs) : imgs[i].id # imageId
  THEN map
  ELSE SetMeta(map, imageId, platform,
               metadataWithPinterest(imgs[CHOOSE i \in 1..Len(imgs) : imgs[i].id = imageId],
                                     platform, location))

\* the table generateMetadataForAll leaves (ImageContext.tsx 357-427)
RECURSIVE tableForAll(_, _, _, _)
tableForAll(map, selected, platform, location) ==
  IF selected = <<>> THEN map
  ELSE tableForAll(SetMeta(map, Head(selected).id, platform,
                           metadataForAll(Head(selected), platform, location)),
                   Tail(selected), platform, location)

\* imageMap.set(platformKey, metadata) for the keys pks in turn
RECURSIVE tableForPlatforms(_, _, _, _)
tableForPlatforms(map, image, pks, location) ==
  IF pks = <<>> THEN map
  ELSE tableForPlatforms(SetMeta(map, image.id, Head(pks),
                                 metadataForAllPlatforms(image, Head(pks), location)),
                         image, Tail(pks), location)

\* the table generateMetadataForAllPlatforms leaves (ImageContext.tsx 435-509)
RECURSIVE tableForAllPlatforms(_, _, _)
tableForAllPlatforms(map, selected, location) ==
  IF selected = <<>> THEN map
  ELSE tableForAllPlatforms(tableForPlatforms(map, Head(selected), PLATFORM_KEYS, location),
                            Tail(selected), location)

\* the session the entry points are called on
EntryImages == Dropped(<<FileShort, FileLong>>)

\* a table with a caption the user has typed for image 1 on web and an entry
\* of image 2 for print
EntryEdited ==
  SetMeta(SetMeta(<<>>, 1, "web",
                  [metadataWithPinterest(EntryImages[1], "web", InitialLocation)
                     EXCEPT !.caption = <<"H","i">>]),
          2, "print", metadataWithPinterest(EntryImages[2], "print", LocationSoHoNYC))

EntryTables == {<<>>, EntryEdited}

InitEntry ==
  /\ InitSession
  /\ InitExport
  /\ dimIn = NoSize /\ dimOut = NoSize
  /\ slugIn \in [selected : SUBSET {1, 2}, imageId : {1, 2},
                 platform : Range(PLATFORM_KEYS), location : GenLocations,
                 prior : EntryTables]
  /\ slugOut = NoSlugs

\* each entry point is called, once and twice, on the table slugIn.prior
GenerateThreeWays ==
  /\ slugIn # NoSlugs /\ slugOut = NoSlugs
  /\ LET selected == FilterImages(EntryImages, slugIn.selected)
         forImage(map) == tableForImage(EntryImages, map, slugIn.imageId, slugIn.platform,
                                        slugIn.location)
         forAll(map) == tableForAll(map, selected, slugIn.platform, slugIn.location)
         forAllPlatforms(map) == tableForAllPlatforms(map, selected, slugIn.location)
     IN  slugOut' = [forImage |-> forImage(slugIn.prior),
                     forAll |-> forAll(slugIn.prior),
                     forAllPlatforms |-> forAllPlatforms(slugIn.prior),
                     forImageTwice |-> forImage(forImage(slugIn.prior)),
                     forAllTwice |-> forAll(forAll(slugIn.prior)),
                     forAllPlatformsTwice |-> forAllPlatforms(forAllPlatforms(slugIn.prior))]
  /\ UNCHANGED <<sessionVars, exportVars, dimVars, slugIn, panelVars, asyncVars>>

NextEntry == GenerateThreeWays

SpecEntry == InitEntry /\ [][NextEntry]_vars

\* the (image, surface) pairs a table may hold an entry for
EntryPairs == {1, 2} \X GenPlatformIds

\* the tables agree on every pair outside targets
SameOutside(table, prior, targets) ==
  \A pair \in EntryPairs \ targets :
    MetaOf(table, pair[1], pair[2]) = MetaOf(prior, pair[1], pair[2])

\* C29: for a selected image, a surface key and a location the three entry
\* points store the same record under (image, surface); each leaves the
\* entries of the pairs it does not target as they were; and calling an
\* entry point twice leaves the table that calling it once leaves.
C29_EntryPointsAgree ==
  slugOut # NoSlugs =>
    /\ slugIn.imageId \in slugIn.selected =>
         /\ MetaOf(slugOut.forImage, slugIn.imageId, slugIn.platform)
              = MetaOf(slugOut.forAll, slugIn.imageId, slugIn.platform)
         /\ MetaOf(slugOut.forAll, slugIn.imageId, slugIn.platform)
              = MetaOf(slugOut.forAllPlatforms, slugIn.imageId, slugIn.platform)
    /\ SameOutside(slugOut.forImage, slugIn.prior, {<<slugIn.imageId, slugIn.platform>>})
    /\ SameOutside(slugOut.forAll, slugIn.prior, slugIn.selected \X {slugIn.platform})
    /\ SameOutside(slugOut.forAllPlatforms, slugIn.prior, slugIn.selected \X Range(PLATFORM_KEYS))
    /\ slugOut.forImageTwice = slugOut.forImage
    /\ slugOut.forAllTwice = slugOut.forAll
    /\ slugOut.forAllPlatformsTwice = slugOut.forAllPlatforms

\* the three entry points have stored the pinterest record of a selected
\* image over a table that held other entries
C29_Witness ==
  /\ slugOut # NoSlugs
  /\ slugIn.imageId \in slugIn.selected
  /\ slugIn.platform = "pinterest"
  /\ slugIn.prior = EntryEdited
  /\ MetaOf(slugOut.forAllPlatforms, slugIn.imageId, "pinterest").pinterestTitle # <<>>
  /\ MetaOf(slugOut.forImage, 1, "web").caption = <<"H","i">>


----------------------------------------------------------------------------
(* Images removed while a run is in flight: SpecRemoval *)

\* removeImages is called at any moment, also between two steps of a run: the
\* run keeps the images it captured, and removeImages revokes their preview
\* URLs (ImageContext.tsx 166-187), which the run's loadImage calls are still
\* to read (part_001 924).  A decode that is under way when the URL is revoked
\* has read its blob already; that it settles as if the removal came after it
\* is the behaviour in which the removal is taken one step later.
NextRemoval ==
  \/ \E id \in ImageIds : RemoveImages({id})
  \/ \E id \in Formats : BetweenRuns /\ ToggleFormat(id)
  \/ ExportRun

SpecRemoval == InitLive /\ [][NextRemoval]_vars

\* the run has passed its self-test
PastSelfTest == run.pc \in {"master", "compress", "compressing", "finalized"}

\* the decode of the current pair settles after the pair's image was removed
SettlesAfterRemoval ==
  /\ run.pc = "loading"
  /\ CurrentEntry.image.id \in revoked
  /\ run' # run

\* C30: a pair whose image was removed before its decode settles is skipped,
\* and a run with a skipped pair never gets past its self-test: it is not
\* Finalized, nothing is downloaded, and it ends with the self-test's error.
C30_RemovedImageAbortsRun ==
  [][/\ SettlesAfterRemoval => run.entry \in run'.skipped
     /\ (run.pc = "selftest" /\ run.skipped # {} /\ run' # run) =>
          (run'.pc = "idle" /\ exportError' # NoError /\ ~isExporting')
     /\ PastSelfTest' => (run'.skipped = {} /\ run'.addedFileCount = run'.expectedFileCount)
     /\ progress'.isComplete => PastSelfTest']_vars

\* a run that has archived a pair is about to decode a pair whose image has
\* been removed since the run started
C30_Witness ==
  /\ run.pc = "loading"
  /\ CurrentEntry.image.id \in revoked
  /\ run.zipFiles # {}
  /\ run.skipped = {}

====
